---------------------------- MODULE Spec2Model ----------------------------
(***************************************************************************)
(* Verification model of the per-step simulation kernel of the stem-cell   *)
(* patterning model (src/Model/functions.py, src/Model/backend.py).        *)
(*                                                                         *)
(* Conventions.                                                            *)
(*  - Per-cell arrays are functions over 0..len-1, as numpy arrays are.    *)
(*  - A 3-vector is a tuple <<x, y, z>> (axis d of the source is d+1).     *)
(*  - Lengths are integers in grid units, forces in integer force units;   *)
(*    float arithmetic is fixed point: distances are compared through      *)
(*    their squares, the nondimensional overlap d is kept in millionths.   *)
(*  - A graph is an igraph-like record [nv |-> vertex count, es |-> edge   *)
(*    list]; edge ids are positions in es, an undirected edge is reported  *)
(*    as <<min, max>>, parallel edges and loops can be stored until        *)
(*    simplify() is called.                                                *)
(*  - functions.py calls the kernels of backend.py under older names and   *)
(*    signatures (check_neighbors_cpu for get_neighbors_cpu, the           *)
(*    if_nonzero buffer for if_edge, get_forces_cpu without number_edges); *)
(*    the model binds each call to the kernel with the matching body.      *)
(*    Likewise update_concentrations is adjust_morphogens, and the reads   *)
(*    FGFR[index][0], ERK[index][1], GATA6[index][2], NANOG[index][3] of   *)
(*    cell_pathway (written for one array of four columns) are the reads   *)
(*    of the four one-column arrays that cell_array() creates.             *)
(*  - The phases modelled are check_neighbors, cell_death,                 *)
(*    cell_diff_surround, cell_growth, cell_division, cell_pathway,        *)
(*    update_queue and handle_movement; the driver that orders them and    *)
(*    the setup files are not part of src/ and follow the specification.   *)
(*  - Run.py, the driver under src/, runs the methods of the Simulation    *)
(*    class of Simulation.py; its loop is the driver specification.        *)
(***************************************************************************)
EXTENDS Integers, Naturals, Sequences, FiniteSets, TLC

VARIABLES simulation, static, pc, frame, hist

vars == <<simulation, static, pc, frame, hist>>

----------------------------------------------------------------------------
(* Bounds of the model *)

\* cells of the neighbour-search specification
NbrCells == 7
\* updates of jkr_forces that are lost to the data race in one run
MaxLost == 1
\* largest population of the life-cycle specification
MaxCells == 5
\* phases of the driver that a run goes through
MaxPhases == 12
\* phases of the driver that a run of the two-step specification goes through
LifePhases == 15
\* largest end_time of the driver specification
RunEndTime == 4

----------------------------------------------------------------------------
(* Program constants *)

\* functions.py:212 motility_force = 0.000000002, in force units
MotilityForce == 6
\* functions.py:222 fewer than 6 neighbors: the cell moves actively
MotilityNeighbors == 6

\* functions.py:828 tpb = 72, the threads of a block of the cuda kernels
tpb == 72

\* functions.py:406 neighbor_distance = 0.00001, in grid units
neighbor_distance == 8
\* functions.py:411 and 416, functions.py:722 and 727: first capacities
InitMaxNeighbors == 5
InitMaxCells == 5
\* backend.py:485 the bond breaks at d <= -0.360562; d is kept in millionths
BreakPoint == -360562
\* functions.py:804-806 (pi * adhesion_const / e_hat) ^ 2 in cubed grid units,
\* so that overlap_ = (AdhesionCube * r_hat) ^ (1/3)
AdhesionCube == 27
\* functions.py:804 pi * adhesion_const in force units per grid unit
ForceGain == 2
\* functions.py:857 6 * pi * viscosity in force units per grid unit of
\* radius and of displacement per unit of move_dt
StokesGain == 1
\* functions.py:122 the pathway is active once current_step > 48
DoxStep == 48
\* functions.py:51 Differentiated neighbours that force GATA6 high
DiffSurround == 6
\* functions.py:99 neighbours from which a Differentiated cell is inhibited
ContactInhibit == 6

----------------------------------------------------------------------------
(* Generic helpers *)

Range0(n) == 0 .. (n - 1)

Len0(a) == Cardinality(DOMAIN a)

Min2(a, b) == IF a <= b THEN a ELSE b

CeilDiv(a, b) == (a + b - 1) \div b

\* np.amax over a non-empty collection of naturals
SetMax(S) == CHOOSE m \in S : \A x \in S : x <= m

SeqToSet(s) == {s[k] : k \in 1 .. Len(s)}

\* integer division rounding toward zero, for b > 0
TruncDiv(a, b) == IF a >= 0 THEN a \div b ELSE -((-a) \div b)

\* floor of the square root and of the cube root
ISqrt(n) == CHOOSE r \in 0 .. n : r * r <= n /\ (r + 1) * (r + 1) > n

ICbrt(n) == CHOOSE r \in 0 .. n : r * r * r <= n /\ (r + 1) * (r + 1) * (r + 1) > n

ZeroVec == <<0, 0, 0>>

VAdd(a, b) == <<a[1] + b[1], a[2] + b[2], a[3] + b[3]>>

VSub(a, b) == <<a[1] - b[1], a[2] - b[2], a[3] - b[3]>>

VNeg(a) == <<-a[1], -a[2], -a[3]>>

\* squared euclidean distance of two 3-vectors
Dist2(a, b) ==
    (a[1] - b[1]) * (a[1] - b[1]) + (a[2] - b[2]) * (a[2] - b[2])
        + (a[3] - b[3]) * (a[3] - b[3])

----------------------------------------------------------------------------
(* Spatial binning: backend.assign_bins, backend.assign_bins_jit *)

\* shape of bins_help: np.ceil(size / distance) + 3
bins_help_size(size, distance) ==
    [d \in 1 .. 3 |-> CeilDiv(size[d], distance) + 3]

\* np.floor_divide(locations, distance) + 1, for every row of locations
bin_locations_of(locations, distance) ==
    [i \in DOMAIN locations |->
        [d \in 1 .. 3 |-> (locations[i][d] \div distance) + 1]]

BinCoords(bsz) ==
    {<<x, y, z>> : x \in Range0(bsz[1]), y \in Range0(bsz[2]), z \in Range0(bsz[3])}

\* bins_help[x][y][z]: the bins that received no cell still hold np.zeros
BinCount(bins, b) == IF b \in DOMAIN bins THEN Len(bins[b]) ELSE 0

\* offset of bins[x][y][z][place] in the C-ordered buffer of shape bsz + (M,)
FlatOffset(bsz, M, b, place) ==
    ((b[1] * bsz[2] + b[2]) * bsz[3] + b[3]) * M + place

\* the store bins[x][y][z][place] = index and the increment of bins_help,
\* for the cell index of bin b. The store is not bounds-checked (nopython):
\* a place >= M lands in the slots that follow in the buffer (oob_in) or
\* beyond the end of the buffer (oob_out).
PlaceCell(st, index, b, bsz, M) ==
    [bins |-> IF b \in DOMAIN st.bins
              THEN [st.bins EXCEPT ![b] = Append(@, index)]
              ELSE (b :> <<index>>) @@ st.bins,
     oob_in |-> st.oob_in \/ (BinCount(st.bins, b) >= M
                              /\ FlatOffset(bsz, M, b, BinCount(st.bins, b))
                                    < bsz[1] * bsz[2] * bsz[3] * M),
     oob_out |-> st.oob_out \/ FlatOffset(bsz, M, b, BinCount(st.bins, b))
                                    >= bsz[1] * bsz[2] * bsz[3] * M]

\* One pass of assign_bins_jit over cells index..number_cells-1; st.bins maps
\* a bin to the cells stored in its slots 0, 1, ...
RECURSIVE assign_bins_jit(_, _, _, _, _, _)
assign_bins_jit(index, number_cells, bin_locations, bsz, M, st) ==
    IF index >= number_cells THEN st
    ELSE assign_bins_jit(index + 1, number_cells, bin_locations, bsz, M,
                         PlaceCell(st, index, bin_locations[index], bsz, M))

\* np.amax(bins_help)
MaxCount(bins) == SetMax({0} \cup {Len(bins[b]) : b \in DOMAIN bins})

\* the passes and overflows seen so far, with those of the pass st
Passed(acc, st) ==
    [passes |-> acc.passes + 1,
     oob_in |-> acc.oob_in \/ st.oob_in,
     oob_out |-> acc.oob_out \/ st.oob_out]

RECURSIVE assign_bins_loop(_, _, _, _, _, _)

\* an end of a pass that makes the new pass with the count found, not
\* doubled
assign_bins_break_exact(size, locations, number_cells, distance, max_cells, acc, st) ==
    IF max_cells >= MaxCount(st.bins)
    THEN [bins |-> st.bins,
          bin_locations |-> bin_locations_of(locations, distance),
          bins_help_size |-> bins_help_size(size, distance),
          max_cells |-> max_cells, passes |-> Passed(acc, st).passes,
          oob_in |-> Passed(acc, st).oob_in, oob_out |-> Passed(acc, st).oob_out]
    ELSE assign_bins_loop(size, locations, number_cells, distance,
                          MaxCount(st.bins), Passed(acc, st))

\* the end of a pass of the while loop of assign_bins: the arrays of the
\* pass st are returned if max_cells sufficed, otherwise a new pass is made
\* with twice the count found
assign_bins_break(size, locations, number_cells, distance, max_cells, acc, st) ==
    IF max_cells >= MaxCount(st.bins)
    THEN [bins |-> st.bins,
          bin_locations |-> bin_locations_of(locations, distance),
          bins_help_size |-> bins_help_size(size, distance),
          max_cells |-> max_cells, passes |-> Passed(acc, st).passes,
          oob_in |-> Passed(acc, st).oob_in, oob_out |-> Passed(acc, st).oob_out]
    ELSE assign_bins_loop(size, locations, number_cells, distance,
                          MaxCount(st.bins) * 2, Passed(acc, st))

\* one pass of the while loop of assign_bins
assign_bins_loop(size, locations, number_cells, distance, max_cells, acc) ==
    assign_bins_break(size, locations, number_cells, distance, max_cells, acc,
        assign_bins_jit(0, number_cells, bin_locations_of(locations, distance),
                        bins_help_size(size, distance), max_cells,
                        [bins |-> <<>>, oob_in |-> FALSE, oob_out |-> FALSE]))

assign_bins(size, locations, number_cells, distance, max_cells) ==
    assign_bins_loop(size, locations, number_cells, distance, max_cells,
                     [passes |-> 0, oob_in |-> FALSE, oob_out |-> FALSE])

----------------------------------------------------------------------------
(* Fixed-radius neighbour search: backend.get_neighbors_cpu,
   backend.jkr_neighbors_cpu *)

\* the 27 bins around a cell in the order of the loops over i, j, k
BinOffsets ==
    <<<<-1, -1, -1>>, <<-1, -1, 0>>, <<-1, -1, 1>>, <<-1, 0, -1>>, <<-1, 0, 0>>,
      <<-1, 0, 1>>, <<-1, 1, -1>>, <<-1, 1, 0>>, <<-1, 1, 1>>,
      <<0, -1, -1>>, <<0, -1, 0>>, <<0, -1, 1>>, <<0, 0, -1>>, <<0, 0, 0>>,
      <<0, 0, 1>>, <<0, 1, -1>>, <<0, 1, 0>>, <<0, 1, 1>>,
      <<1, -1, -1>>, <<1, -1, 0>>, <<1, -1, 1>>, <<1, 0, -1>>, <<1, 0, 0>>,
      <<1, 0, 1>>, <<1, 1, -1>>, <<1, 1, 0>>, <<1, 1, 1>>>>

\* the bin [x + i][y + j][z + k] of the n-th turn of the loops around bin
\* c; a negative index counts from the end of the axis
BinAround(bsz, c, n) ==
    [d \in 1 .. 3 |->
        IF c[d] + BinOffsets[n][d] < 0 THEN c[d] + BinOffsets[n][d] + bsz[d]
        ELSE c[d] + BinOffsets[n][d]]

\* every candidate `current` met by the loops of a focus cell from the n-th
\* bin on, in loop order: bins[x + i][y + j][z + k][0 .. bin_count - 1]
RECURSIVE CandidatesFrom(_, _, _)
CandidatesFrom(B, focus, n) ==
    IF n > 27 THEN <<>>
    ELSE (IF BinAround(B.bins_help_size, B.bin_locations[focus], n) \in DOMAIN B.bins
          THEN B.bins[BinAround(B.bins_help_size, B.bin_locations[focus], n)]
          ELSE <<>>)
         \o CandidatesFrom(B, focus, n + 1)

Candidates(B, focus) == CandidatesFrom(B, focus, 1)

\* What one focus cell leaves in the arrays: its count in edge_count and, in
\* its slab of edge_holder, the first max_neighbors of the edges found; rest
\* is what the cells after it leave. edge_holder[if_edge] lists the slabs in
\* the order of the cells.
Slab(found, max_neighbors, rest) ==
    [edge_count |-> <<Len(found)>> \o rest.edge_count,
     edges |-> SubSeq(found, 1, Min2(Len(found), max_neighbors)) \o rest.edges]

\* the search with a strict comparison, mag < distance: a pair at exactly
\* distance is not reported
RECURSIVE get_neighbors_found_strict(_, _, _, _, _)
get_neighbors_found_strict(cand, locations, distance, focus, k) ==
    IF k > Len(cand) THEN <<>>
    ELSE (IF /\ Dist2(locations[cand[k]], locations[focus]) < distance * distance
             /\ focus < cand[k]
          THEN <<(<<focus, cand[k]>>)>>
          ELSE <<>>)
         \o get_neighbors_found_strict(cand, locations, distance, focus, k + 1)

\* get_neighbors_cpu: the candidates of a focus cell from the k-th on that
\* pass np.linalg.norm(locations[current] - locations[focus]) <= distance
\* and focus < current
RECURSIVE get_neighbors_found(_, _, _, _, _)
get_neighbors_found(cand, locations, distance, focus, k) ==
    IF k > Len(cand) THEN <<>>
    ELSE (IF /\ Dist2(locations[cand[k]], locations[focus]) <= distance * distance
             /\ focus < cand[k]
          THEN <<(<<focus, cand[k]>>)>>
          ELSE <<>>)
         \o get_neighbors_found(cand, locations, distance, focus, k + 1)

\* the loop of get_neighbors_cpu over the focus cells from focus on
RECURSIVE get_neighbors_from(_, _, _, _, _, _)
get_neighbors_from(number_cells, B, locations, distance, max_neighbors, focus) ==
    IF focus >= number_cells THEN [edge_count |-> <<>>, edges |-> <<>>]
    ELSE Slab(get_neighbors_found(Candidates(B, focus), locations, distance, focus, 1),
              max_neighbors,
              get_neighbors_from(number_cells, B, locations, distance,
                                 max_neighbors, focus + 1))

get_neighbors_cpu(number_cells, B, locations, distance, max_neighbors) ==
    get_neighbors_from(number_cells, B, locations, distance, max_neighbors, 0)

\* jkr_neighbors_cpu: the candidates of a focus cell from the k-th on with
\* overlap = radii[current] + radii[focus] - mag >= 0 and focus < current
RECURSIVE jkr_neighbors_found(_, _, _, _, _)
jkr_neighbors_found(cand, locations, radii, focus, k) ==
    IF k > Len(cand) THEN <<>>
    ELSE (IF /\ Dist2(locations[cand[k]], locations[focus])
                    <= (radii[cand[k]] + radii[focus]) * (radii[cand[k]] + radii[focus])
             /\ focus < cand[k]
          THEN <<(<<focus, cand[k]>>)>>
          ELSE <<>>)
         \o jkr_neighbors_found(cand, locations, radii, focus, k + 1)

\* the loop of jkr_neighbors_cpu over the focus cells from focus on
RECURSIVE jkr_neighbors_from(_, _, _, _, _, _)
jkr_neighbors_from(number_cells, B, locations, radii, max_neighbors, focus) ==
    IF focus >= number_cells THEN [edge_count |-> <<>>, edges |-> <<>>]
    ELSE Slab(jkr_neighbors_found(Candidates(B, focus), locations, radii, focus, 1),
              max_neighbors,
              jkr_neighbors_from(number_cells, B, locations, radii,
                                 max_neighbors, focus + 1))

jkr_neighbors_cpu(number_cells, B, locations, radii, max_neighbors) ==
    jkr_neighbors_from(number_cells, B, locations, radii, max_neighbors, 0)

----------------------------------------------------------------------------
(* Graph store (igraph calls made by functions.py) *)

EmptyGraph(n) == [nv |-> n, es |-> <<>>]

Norm(e) == IF e[1] <= e[2] THEN e ELSE <<e[2], e[1]>>

\* Graph.add_edges
add_edges(g, edges) ==
    [g EXCEPT !.es = @ \o [k \in 1 .. Len(edges) |-> Norm(edges[k])]]

\* Graph.add_vertices
add_vertices(g, n) == [g EXCEPT !.nv = @ + n]

\* Graph.delete_edges(None)
delete_all_edges(g) == [g EXCEPT !.es = <<>>]

\* Graph.delete_edges(ids): ids are positions in get_edgelist(), from 0
delete_edges(g, ids) ==
    [g EXCEPT !.es = LET keep == SelectSeq([k \in 1 .. Len(g.es) |-> k],
                                           LAMBDA k : (k - 1) \notin ids)
                     IN [j \in 1 .. Len(keep) |-> g.es[keep[j]]]]

\* the edges of a set in lexicographic order
RECURSIVE SortEdges(_)
SortEdges(S) ==
    IF S = {} THEN <<>>
    ELSE LET m == CHOOSE e \in S : \A f \in S :
                      e[1] < f[1] \/ (e[1] = f[1] /\ e[2] <= f[2])
         IN <<m>> \o SortEdges(S \ {m})

\* a simplify() that drops the loops and keeps parallel edges
simplify_loops(g) == [g EXCEPT !.es = SelectSeq(@, LAMBDA e : e[1] # e[2])]

\* Graph.simplify(): parallel edges are merged and loops dropped
simplify(g) == [g EXCEPT !.es = SortEdges({e \in SeqToSet(@) : e[1] # e[2]})]

\* a deletion of vertices that leaves the others their indices
Renumber_same(V, v) == v

\* the index of vertex v once the vertices of V are deleted
Renumber(V, v) == v - Cardinality({x \in V : x < v})

\* Graph.delete_vertices(indices): the edges of deleted vertices go with
\* them, the remaining vertices are renumbered in order
delete_vertices(g, V) ==
    LET keep == SelectSeq(g.es, LAMBDA e : e[1] \notin V /\ e[2] \notin V)
    IN [nv |-> g.nv - Cardinality(V),
        es |-> [k \in 1 .. Len(keep) |->
                   <<Renumber(V, keep[k][1]), Renumber(V, keep[k][2])>>]]

\* Graph.neighbors(index): one entry per incident edge
Degree(g, index) ==
    Cardinality({k \in 1 .. Len(g.es) : g.es[k][1] = index \/ g.es[k][2] = index})

EdgeSet(g) == SeqToSet(g.es)

----------------------------------------------------------------------------
(* check_neighbors: functions.py *)

\* a check_neighbors whose first pass is the only one: the slabs are taken
\* as they are, whatever edge_count says
check_neighbors_once(number_cells, B, locations, max_neighbors, passes, r) ==
    [edges |-> r.edges, max_neighbors |-> max_neighbors, passes |-> passes + 1]

RECURSIVE check_neighbors_loop(_, _, _, _, _)

\* the end of a pass of the while loop over max_neighbors: r is what the
\* kernel returned; np.amax(edge_count) decides between break and a new
\* pass with twice the count found
check_neighbors_break(number_cells, B, locations, max_neighbors, passes, r) ==
    IF max_neighbors >= SetMax(SeqToSet(r.edge_count))
    THEN [edges |-> r.edges, max_neighbors |-> max_neighbors,
          passes |-> passes + 1]
    ELSE check_neighbors_loop(number_cells, B, locations,
                              SetMax(SeqToSet(r.edge_count)) * 2, passes + 1)

\* one pass of the while loop
check_neighbors_loop(number_cells, B, locations, max_neighbors, passes) ==
    check_neighbors_break(number_cells, B, locations, max_neighbors, passes,
        get_neighbors_cpu(number_cells, B, locations, neighbor_distance,
                          max_neighbors))

\* what check_neighbors leaves: the graph with the edges r found, and the
\* capacities of the bins B and of the search r
check_neighbors_end(sim, B, r) ==
    [graph |-> add_edges(delete_all_edges(sim.neighbor_graph), r.edges),
     max_cells |-> B.max_cells, max_neighbors |-> r.max_neighbors,
     bin_passes |-> B.passes, edge_passes |-> r.passes,
     oob_in |-> B.oob_in, oob_out |-> B.oob_out]

\* check_neighbors once the bins B are assigned
check_neighbors_search(sim, st, B) ==
    check_neighbors_end(sim, B,
        check_neighbors_loop(sim.number_cells, B, sim.locations,
                             st.check_max_neighbors, 0))

\* the whole of check_neighbors for number_cells > 0
check_neighbors(sim, st) ==
    check_neighbors_search(sim, st,
        assign_bins(sim.size, sim.locations, sim.number_cells,
                    neighbor_distance, st.check_max_cells))

----------------------------------------------------------------------------
(* jkr_neighbors: functions.py *)

RECURSIVE jkr_neighbors_loop(_, _, _, _, _, _)

\* the end of a pass of the while loop over max_neighbors
jkr_neighbors_break(number_cells, B, locations, radii, max_neighbors, passes, r) ==
    IF max_neighbors >= SetMax(SeqToSet(r.edge_count))
    THEN [edges |-> r.edges, max_neighbors |-> max_neighbors,
          passes |-> passes + 1]
    ELSE jkr_neighbors_loop(number_cells, B, locations, radii,
                            SetMax(SeqToSet(r.edge_count)) * 2, passes + 1)

\* one pass of the while loop
jkr_neighbors_loop(number_cells, B, locations, radii, max_neighbors, passes) ==
    jkr_neighbors_break(number_cells, B, locations, radii, max_neighbors, passes,
        jkr_neighbors_cpu(number_cells, B, locations, radii, max_neighbors))

\* a jkr_neighbors that builds the graph anew from the edges found
jkr_neighbors_anew(sim, B, r) ==
    [graph |-> simplify(add_edges(delete_all_edges(sim.jkr_graph), r.edges)),
     added |-> r.edges,
     max_cells |-> B.max_cells, max_neighbors |-> r.max_neighbors,
     bin_passes |-> B.passes, edge_passes |-> r.passes,
     oob_in |-> B.oob_in, oob_out |-> B.oob_out]

\* what jkr_neighbors leaves: the found edges are added to the running
\* graph, which is then simplified
jkr_neighbors_end(sim, B, r) ==
    [graph |-> simplify(add_edges(sim.jkr_graph, r.edges)),
     added |-> r.edges,
     max_cells |-> B.max_cells, max_neighbors |-> r.max_neighbors,
     bin_passes |-> B.passes, edge_passes |-> r.passes,
     oob_in |-> B.oob_in, oob_out |-> B.oob_out]

\* jkr_neighbors once the bins B are assigned
jkr_neighbors_search(sim, st, B) ==
    jkr_neighbors_end(sim, B,
        jkr_neighbors_loop(sim.number_cells, B, sim.locations, sim.radii,
                           st.jkr_max_neighbors, 0))

\* the whole of jkr_neighbors for number_cells > 0
jkr_neighbors(sim, st) ==
    jkr_neighbors_search(sim, st,
        assign_bins(sim.size, sim.locations, sim.number_cells,
                    2 * sim.max_radius, st.jkr_max_cells))

----------------------------------------------------------------------------
(* Contact forces: backend.get_forces_cpu, functions.get_forces *)

\* overlap_ = ((pi * adhesion_const / e_hat) ** (2/3)) * (r_hat ** (1/3))
overlap_(r1, r2) == ICbrt((AdhesionCube * r1 * r2) \div (r1 + r2))

\* d = overlap / overlap_, in millionths
NonDimOverlap(overlap, r1, r2) == (overlap * 1000000) \div overlap_(r1, r2)

\* f = -0.0204 d^3 + 0.4942 d^2 + 1.0801 d - 1.324, in 1/10000, from d in
\* millionths (Horner form on thousandths)
ForcePoly(d) ==
    LET dm == d \div 1000
        t1 == ((-204 * dm) \div 1000) + 4942
        t2 == ((t1 * dm) \div 1000) + 10801
    IN ((t2 * dm) \div 1000) - 13240

\* the body of the loop of get_forces_cpu for one edge: whether the edge is
\* flagged in delete_edges, and the vector jkr_force * normal that is added
\* to jkr_forces[cell_1] and subtracted from jkr_forces[cell_2]
EdgeForce(locations, radii, e) ==
    LET cell_1 == e[1]
        cell_2 == e[2]
        vector == VSub(locations[cell_1], locations[cell_2])
        mag == ISqrt(Dist2(locations[cell_1], locations[cell_2]))
        overlap == radii[cell_1] + radii[cell_2] - mag
        d == NonDimOverlap(overlap, radii[cell_1], radii[cell_2])
        f == ForcePoly(d)
        \* jkr_force = f * pi * adhesion_const * r_hat
        jkr_force == TruncDiv(f * ForceGain * radii[cell_1] * radii[cell_2],
                              (radii[cell_1] + radii[cell_2]) * 10000)
        Normal(k) == IF mag # 0 THEN TruncDiv(jkr_force * vector[k], mag) ELSE 0
    IN IF d > BreakPoint
       THEN [delete |-> FALSE, d |-> d, push |-> <<Normal(1), Normal(2), Normal(3)>>]
       ELSE [delete |-> TRUE, d |-> d, push |-> ZeroVec]

\* the updates jkr_forces[cell] += ... and -= ... made by the loop: <<k, 1>>
\* is the update of the first cell of edge k, <<k, 2>> that of the second
Updates(jkr_edges, locations, radii) ==
    {<<k, side>> \in (1 .. Len(jkr_edges)) \X {1, 2} :
        ~EdgeForce(locations, radii, jkr_edges[k]).delete}

\* the updates of one cell among a set of updates
UpdatesOf(U, jkr_edges, cell) == {u \in U : jkr_edges[u[1]][u[2]] = cell}

RECURSIVE SumPushes(_, _, _, _)
SumPushes(U, jkr_edges, locations, radii) ==
    IF U = {} THEN ZeroVec
    ELSE LET u == CHOOSE x \in U : TRUE
             push == EdgeForce(locations, radii, jkr_edges[u[1]]).push
         IN VAdd(IF u[2] = 1 THEN push ELSE VNeg(push),
                 SumPushes(U \ {u}, jkr_edges, locations, radii))

\* the subsets of S of at most n elements
RECURSIVE SubsetsUpTo(_, _)
SubsetsUpTo(S, n) ==
    IF n = 0 THEN {{}}
    ELSE LET smaller == SubsetsUpTo(S, n - 1)
         IN smaller \cup {T \cup {x} : T \in smaller, x \in S}

\* The sets of updates that can be lost when the prange loop of
\* get_forces_cpu runs: jkr_forces[cell] += ... is a read-modify-write that
\* is not atomic, and the edges of one cell run on different threads, so
\* that an update of a cell is overwritten by another update of the same
\* cell that read the row before it; the update written last is never lost.
\* At most budget updates are lost.
LostUpdates(jkr_edges, locations, radii, budget) ==
    LET U == Updates(jkr_edges, locations, radii)
        shared == {u \in U : Cardinality(UpdatesOf(U, jkr_edges,
                                            jkr_edges[u[1]][u[2]])) >= 2}
    IN {L \in SubsetsUpTo(shared, budget) :
           \A u \in L : UpdatesOf(U, jkr_edges, jkr_edges[u[1]][u[2]]) \ L # {}}

\* jkr_forces as get_forces_cpu returns it when the updates of lost are
\* lost; an update of a cell beyond the rows of the array is written
\* outside the buffer
get_forces_cpu(jkr_edges, locations, radii, jkr_forces, lost) ==
    LET U == Updates(jkr_edges, locations, radii) \ lost
    IN [cell \in DOMAIN jkr_forces |->
           VAdd(jkr_forces[cell],
                SumPushes(UpdatesOf(U, jkr_edges, cell), jkr_edges, locations, radii))]

\* delete_edges as filled by get_forces_cpu: the ids of the flagged edges
BrokenEdges(jkr_edges, locations, radii) ==
    {k - 1 : k \in {j \in 1 .. Len(jkr_edges) :
                      EdgeForce(locations, radii, jkr_edges[j]).delete}}

\* the results of get_forces: nothing is done for an empty edge list
get_forces(sim, budget) ==
    LET jkr_edges == sim.jkr_graph.es
    IN IF Len(jkr_edges) = 0
       THEN {[graph |-> sim.jkr_graph, forces |-> sim.jkr_forces, lost |-> {}]}
       ELSE {[graph |-> delete_edges(sim.jkr_graph,
                           BrokenEdges(jkr_edges, sim.locations, sim.radii)),
              forces |-> get_forces_cpu(jkr_edges, sim.locations, sim.radii,
                                        sim.jkr_forces, lost),
              lost |-> lost] :
                lost \in LostUpdates(jkr_edges, sim.locations, sim.radii, budget)}

\* the results of get_forces on the parallel path: get_forces_gpu is
\* launched on bpg blocks of tpb threads, bpg = ceil(number_cells / tpb);
\* the thread of index k evaluates the edge of index k, so that an edge
\* beyond the threads is neither given a force nor flagged. The additions
\* to jkr_forces are not atomic and are lost as on the other path.
get_forces_gpu(sim, budget) ==
    LET jkr_edges == sim.jkr_graph.es
        threads == CeilDiv(sim.number_cells, tpb) * tpb
        taken == SubSeq(jkr_edges, 1, Min2(Len(jkr_edges), threads))
    IN IF Len(jkr_edges) = 0
       THEN {[graph |-> sim.jkr_graph, forces |-> sim.jkr_forces, lost |-> {}]}
       ELSE {[graph |-> delete_edges(sim.jkr_graph,
                           BrokenEdges(taken, sim.locations, sim.radii)),
              forces |-> get_forces_cpu(taken, sim.locations, sim.radii,
                                        sim.jkr_forces, lost),
              lost |-> lost] :
                lost \in LostUpdates(taken, sim.locations, sim.radii, budget)}

----------------------------------------------------------------------------
(* Integration of the positions: backend.apply_forces_cpu *)

\* a row read beyond the end of an array holds whatever is in memory there
GarbageRows == {<<0, 0, 0>>, <<5, 0, 0>>}

RowOr(array, i, garbage) == IF i \in DOMAIN array THEN array[i] ELSE garbage

\* new_location = locations[i] + velocity * move_dt, before the clamp
Tentative(jkr_row, motility_row, location, radius, move_dt) ==
    [j \in 1 .. 3 |->
        location[j] + TruncDiv((motility_row[j] + jkr_row[j]) * move_dt,
                               StokesGain * radius)]

\* a clamp at the upper limits only
Clamp_upper(new_location, size) ==
    [j \in 1 .. 3 |->
        IF new_location[j] > size[j] THEN size[j] ELSE new_location[j]]

\* the loop over the axes: the location is returned to the space limits
Clamp(new_location, size) ==
    [j \in 1 .. 3 |->
        IF new_location[j] > size[j] THEN size[j]
        ELSE IF new_location[j] < 0 THEN 0
             ELSE new_location[j]]

\* the locations array returned: the rows of the first number_cells cells
\* are rewritten in place, the rows after them are left as they are
apply_forces_cpu(number_cells, jkr_force, motility_force, locations, radii, size, move_dt, garbage) ==
    [i \in DOMAIN locations |->
        IF i < number_cells
        THEN Clamp(Tentative(RowOr(jkr_force, i, garbage),
                             RowOr(motility_force, i, garbage),
                             locations[i], radii[i], move_dt), size)
        ELSE locations[i]]

----------------------------------------------------------------------------
(* Life-cycle phases: functions.py *)

\* range(n) as a sequence
Indices(n) == [k \in 1 .. n |-> k - 1]

\* a cell_death that marks a cell only above the threshold
cell_death_above(sim) ==
    LET counter(index) ==
            IF sim.states[index] = "Pluripotent"
            THEN IF Degree(sim.neighbor_graph, index) < sim.lonely_cell
                 THEN sim.death_counters[index] + 1
                 ELSE 0
            ELSE sim.death_counters[index]
        marked == SelectSeq(Indices(sim.number_cells), LAMBDA index :
                     /\ sim.states[index] = "Pluripotent"
                     /\ counter(index) > sim.death_thresh)
    IN [sim EXCEPT !.death_counters =
                        [index \in DOMAIN @ |->
                            IF index < sim.number_cells THEN counter(index)
                            ELSE @[index]],
                   !.cells_to_remove = @ \o marked]

\* cell_death: a Pluripotent cell with fewer than lonely_cell neighbours
\* counts up, any other Pluripotent cell is reset; a Pluripotent cell at
\* death_thresh is appended to cells_to_remove
cell_death(sim) ==
    LET counter(index) ==
            IF sim.states[index] = "Pluripotent"
            THEN IF Degree(sim.neighbor_graph, index) < sim.lonely_cell
                 THEN sim.death_counters[index] + 1
                 ELSE 0
            ELSE sim.death_counters[index]
        marked == SelectSeq(Indices(sim.number_cells), LAMBDA index :
                     /\ sim.states[index] = "Pluripotent"
                     /\ counter(index) >= sim.death_thresh)
    IN [sim EXCEPT !.death_counters =
                        [index \in DOMAIN @ |->
                            IF index < sim.number_cells THEN counter(index)
                            ELSE @[index]],
                   !.cells_to_remove = @ \o marked]

\* the Differentiated entries of neighbor_graph.neighbors(index)
DiffNeighbors(sim, index) ==
    Cardinality({k \in 1 .. Len(sim.neighbor_graph.es) :
        LET e == sim.neighbor_graph.es[k]
        IN \/ e[1] = index /\ sim.states[e[2]] = "Differentiated"
           \/ e[2] = index /\ sim.states[e[1]] = "Differentiated"})

\* cell_diff_surround: a Pluripotent cell below GATA6 high that counts
\* DiffSurround Differentiated neighbours is set GATA6 high, NANOG low
cell_diff_surround(sim) ==
    LET forced(index) ==
            /\ index < sim.number_cells
            /\ sim.states[index] = "Pluripotent"
            /\ sim.GATA6[index] < sim.field - 1
            /\ DiffNeighbors(sim, index) >= DiffSurround
    IN [sim EXCEPT !.GATA6 = [index \in DOMAIN @ |->
                                 IF forced(index) THEN sim.field - 1 ELSE @[index]],
                   !.NANOG = [index \in DOMAIN @ |->
                                 IF forced(index) THEN 0 ELSE @[index]]]

\* cell_growth: below max_radius the radius is recomputed from the division
\* counter with the growth rate of the cell's state
cell_growth(sim) ==
    [sim EXCEPT !.radii =
        [index \in DOMAIN @ |->
            IF index < sim.number_cells /\ @[index] < sim.max_radius
            THEN IF sim.states[index] = "Pluripotent"
                 THEN sim.pluri_growth * sim.div_counters[index] + sim.min_radius
                 ELSE sim.diff_growth * sim.div_counters[index] + sim.min_radius
            ELSE @[index]]]

\* the cells of cell_division that reach r.randint(0, 1)
DivisionDraws(sim) ==
    {index \in Range0(sim.number_cells) :
        IF sim.states[index] = "Pluripotent"
        THEN sim.div_counters[index] < sim.pluri_div_thresh
        ELSE sim.div_counters[index] < sim.diff_div_thresh}

\* cell_division, with randint[index] the value drawn for a cell of
\* DivisionDraws: a cell at its threshold is appended to cells_to_divide
\* (a Differentiated one only with fewer than ContactInhibit neighbours)
cell_division(sim, randint) ==
    LET marked == SelectSeq(Indices(sim.number_cells), LAMBDA index :
                     IF sim.states[index] = "Pluripotent"
                     THEN sim.div_counters[index] >= sim.pluri_div_thresh
                     ELSE /\ sim.div_counters[index] >= sim.diff_div_thresh
                          /\ Degree(sim.neighbor_graph, index) < ContactInhibit)
    IN [sim EXCEPT !.cells_to_divide = @ \o marked,
                   !.div_counters =
                        [index \in DOMAIN @ |->
                            IF index \in DivisionDraws(sim)
                            THEN @[index] + randint[index]
                            ELSE @[index]]]

----------------------------------------------------------------------------
(* Regulatory pathway: functions.cell_pathway, backend.adjust_morphogens,
   backend.get_concentration *)

\* the nearest diffusion point: ceil(floor(2 * location / spat_res) / 2)
NearestPoint(sim, index) ==
    [d \in 1 .. 3 |-> (((2 * sim.locations[index][d]) \div sim.spat_res) + 1) \div 2]

\* gradient[x][y][z] += amount with mode "nearest"
adjust_morphogens(sim, index, amount) ==
    [sim EXCEPT !.fgf4_values[NearestPoint(sim, index)] = @ + amount]

get_concentration(sim, index) == sim.fgf4_values[NearestPoint(sim, index)]

\* the level of FGF4 seen by the finite dynamical system
Fgf4Level(sim, fgf4_value) ==
    IF sim.field = 2
    THEN IF 2 * fgf4_value > sim.max_concentration THEN 1 ELSE 0
    ELSE IF 3 * fgf4_value > 2 * sim.max_concentration THEN 2
         ELSE IF 3 * fgf4_value > sim.max_concentration THEN 1
              ELSE 0

\* update functions in which NANOG follows ERK alone
FdsUpdate_erk(field, x1, x2, x3, x4, x5) ==
    [FGFR |-> (x1 * x4) % field, ERK |-> x2 % field,
     GATA6 |-> IF x4 = field - 1 THEN x4 ELSE (1 + x5) % field,
     NANOG |-> (x3 + 1) % field]

\* the update functions of the finite dynamical system
FdsUpdate(field, x1, x2, x3, x4, x5) ==
    IF field = 2
    THEN [FGFR |-> (x1 * x4) % 2,
          ERK |-> x2 % 2,
          GATA6 |-> (1 + x5 + x5 * x4) % 2,
          NANOG |-> ((x3 + 1) * (x4 + 1)) % 2]
    ELSE [FGFR |-> (x1 * x4 * ((2 * x1 + 1) * (2 * x4 + 1) + x1 * x4)) % 3,
          ERK |-> x2 % 3,
          GATA6 |-> ((x4 * x4) * (x5 + 1) + (x5 * x5) * (x4 + 1) + 2 * x5 + 1) % 3,
          NANOG |-> (x5 * x5
                     + x5 * (x5 + 1) * (x3 * (2 * x4 * x4 + 2 * x3 + 1)
                                        + x4 * (2 * x3 * x3 + 2 * x4 + 1))
                     + (2 * x3 * x3 + 1) * (2 * x4 * x4 + 1)) % 3]

\* the part of the loop body under current_step > DoxStep, for one cell
PathwayActive(sim, index, randint) ==
    LET fgf4_fds == Fgf4Level(sim, get_concentration(sim, index))
        temp_fgfr == sim.FGFR[index]
        updating == sim.fds_counters[index] % sim.fds_thresh = 0
        new == FdsUpdate(sim.field, fgf4_fds, sim.FGFR[index], sim.ERK[index],
                         sim.GATA6[index], sim.NANOG[index])
        fgfr_change == new.FGFR - temp_fgfr
        s1 == IF ~updating THEN sim
              ELSE [(IF fgfr_change > 0
                     THEN adjust_morphogens(sim, index, -fgfr_change)
                     ELSE sim)
                    EXCEPT !.FGFR[index] = new.FGFR, !.ERK[index] = new.ERK,
                           !.GATA6[index] = new.GATA6, !.NANOG[index] = new.NANOG]
        s2 == [s1 EXCEPT !.fds_counters[index] = @ + 1]
        draws == s2.GATA6[index] = s2.field - 1 /\ s2.states[index] = "Pluripotent"
        s3 == IF ~draws THEN s2
              ELSE [s2 EXCEPT !.diff_counters[index] = @ + randint[index]]
    IN [sim |-> IF draws /\ s3.diff_counters[index] >= s3.pluri_to_diff
                THEN [s3 EXCEPT !.states[index] = "Differentiated",
                                !.NANOG[index] = 0,
                                !.motion[index] = TRUE]
                ELSE s3,
        draws |-> draws]

\* the loop of cell_pathway from cell index on; drew collects the cells that
\* reached r.randint(0, 1), raised tells that a diffusion point outside the
\* grid was addressed
RECURSIVE cell_pathway_from(_, _, _, _)
cell_pathway_from(sim, index, randint, drew) ==
    IF index >= sim.number_cells THEN [sim |-> sim, drew |-> drew, raised |-> FALSE]
    ELSE IF NearestPoint(sim, index) \notin DOMAIN sim.fgf4_values
         THEN [sim |-> sim, drew |-> drew, raised |-> TRUE]
         ELSE LET s1 == IF sim.NANOG[index] > 0
                        THEN adjust_morphogens(sim, index, sim.NANOG[index])
                        ELSE sim
              IN IF sim.current_step > DoxStep
                 THEN LET r == PathwayActive(s1, index, randint)
                      IN cell_pathway_from(r.sim, index + 1, randint,
                            IF r.draws THEN drew \cup {index} ELSE drew)
                 ELSE cell_pathway_from(s1, index + 1, randint, drew)

cell_pathway(sim, randint) == cell_pathway_from(sim, 0, randint, {})

----------------------------------------------------------------------------
(* Active movement: functions.cell_motility, backend.normal_vector,
   backend.random_vector. A force is motility_force times a unit vector;
   the product is kept in force units. cell_motility reads the nearest
   Differentiated cell as cell_nearest_diff[index] after testing
   nearest_diff[index]: both are taken as the array that nearest() leaves
   in nearest_diff. *)

\* neighbor_graph.neighbors(index)
Neighbors(g, index) ==
    {g.es[k][2] : k \in {l \in 1 .. Len(g.es) : g.es[l][1] = index}}
        \cup {g.es[k][1] : k \in {l \in 1 .. Len(g.es) : g.es[l][2] = index}}

\* motility_force * normal_vector(vector): the zero vector for a vector of
\* magnitude 0
normal_vector(vector, motility_force) ==
    IF ISqrt(Dist2(vector, ZeroVec)) = 0 THEN ZeroVec
    ELSE [k \in 1 .. 3 |->
             TruncDiv(motility_force * vector[k], ISqrt(Dist2(vector, ZeroVec)))]

\* the values of random_vector on the axes: in the plane for size[2] = 0
RandomVectors(size) ==
    {<<1, 0, 0>>, <<-1, 0, 0>>, <<0, 1, 0>>, <<0, -1, 0>>}
        \cup (IF size[3] = 0 THEN {} ELSE {<<0, 0, 1>>, <<0, 0, -1>>})

\* vector_holder: the sum of the vectors from the cell to the cells of S
RECURSIVE vector_holder(_, _, _)
vector_holder(sim, index, S) ==
    IF S = {} THEN ZeroVec
    ELSE LET j == CHOOSE j \in S : TRUE
         IN VAdd(VSub(sim.locations[j], sim.locations[index]),
                 vector_holder(sim, index, S \ {j}))

\* the NANOG high neighbors of a cell
NanogHigh(sim, index) ==
    {j \in Neighbors(sim.neighbor_graph, index) : sim.NANOG[j] > sim.GATA6[j]}

\* the branch of the loop body that a cell takes: what becomes of its
\* motion flag ("keep": not written) and which force is added
MotilityBranch(sim, index) ==
    LET few == Degree(sim.neighbor_graph, index) < MotilityNeighbors
    IN IF sim.states[index] = "Differentiated"
       THEN IF few
            THEN [motion |-> "true",
                  force |-> IF NanogHigh(sim, index) # {} THEN "away" ELSE "random"]
            ELSE [motion |-> "false", force |-> "none"]
       ELSE IF sim.GATA6[index] > sim.NANOG[index]
       THEN IF few
            THEN [motion |-> "true",
                  force |-> IF sim.guye_move /\ sim.nearest_diff[index] # -1
                            THEN "nearest_diff" ELSE "random"]
            ELSE [motion |-> "false", force |-> "none"]
       ELSE IF sim.NANOG[index] > sim.GATA6[index]
       THEN IF few
            THEN [motion |-> "true",
                  force |-> IF ~sim.eunbi_move THEN "random"
                            ELSE IF sim.nearest_gata6[index] # -1 THEN "nearest_gata6"
                            ELSE IF sim.nearest_nanog[index] # -1 THEN "nearest_nanog"
                            ELSE "random"]
            ELSE [motion |-> "false", force |-> "none"]
       ELSE IF few
            THEN [motion |-> "keep", force |-> "random"]
            ELSE [motion |-> "false", force |-> "none"]

\* the cells that call random_vector
MotilityDraws(sim) ==
    {index \in Range0(sim.number_cells) : MotilityBranch(sim, index).force = "random"}

\* the vector added to motility_forces[index]
MotilityVector(sim, index, random) ==
    LET to(j) == VSub(sim.locations[j], sim.locations[index])
    IN CASE MotilityBranch(sim, index).force = "away" ->
               VNeg(normal_vector(vector_holder(sim, index, NanogHigh(sim, index)),
                                  MotilityForce))
         [] MotilityBranch(sim, index).force = "nearest_diff" ->
               normal_vector(to(sim.nearest_diff[index]), MotilityForce)
         [] MotilityBranch(sim, index).force = "nearest_gata6" ->
               normal_vector(to(sim.nearest_gata6[index]), MotilityForce)
         [] MotilityBranch(sim, index).force = "nearest_nanog" ->
               normal_vector(to(sim.nearest_nanog[index]), MotilityForce)
         [] MotilityBranch(sim, index).force = "random" ->
               [k \in 1 .. 3 |-> MotilityForce * random[index][k]]
         [] OTHER -> ZeroVec

\* cell_motility, with random[index] the value of random_vector for a cell
\* of MotilityDraws
cell_motility(sim, random) ==
    [sim EXCEPT
        !.motion = [index \in DOMAIN @ |->
                       IF index >= sim.number_cells
                          \/ MotilityBranch(sim, index).motion = "keep"
                       THEN @[index]
                       ELSE MotilityBranch(sim, index).motion = "true"],
        !.motility_forces =
                   [index \in DOMAIN @ |->
                       IF index >= sim.number_cells
                          \/ MotilityBranch(sim, index).force = "none"
                       THEN @[index]
                       ELSE VAdd(@[index], MotilityVector(sim, index, random))]]

----------------------------------------------------------------------------
(* Diffusion: functions.update_diffusion, backend.update_diffusion_jit. An
   array is a record of its shape, its entries by zero-based index and the
   unit of its entries: an entry e stands for the concentration e / unit.
   The coefficient a = dt * diffuse_const / spat_res2 is kept as the
   fraction (dt * diffuse_const) / spat_res2, and a pass of the kernel
   multiplies the unit by spat_res2, so that the arithmetic is exact. The
   call in update_diffusion names the kernel update_diffusion_cpu and passes
   no last_dt: last_dt is an input of the model. *)

\* the sum of the entries of data at the indices of S
RECURSIVE SumOver(_, _)
SumOver(data, S) ==
    IF S = {} THEN 0
    ELSE LET g == CHOOSE g \in S : TRUE
         IN data[g] + SumOver(data, S \ {g})

\* np.sum(gradient)
Total(gradient) == SumOver(gradient.data, DOMAIN gradient.data)

\* gradient[gradient > max_concentration] = max_concentration;
\* gradient[gradient < 0] = 0
Clip(gradient, max_concentration) ==
    [gradient EXCEPT !.data =
        [g \in DOMAIN @ |->
            IF @[g] > max_concentration * gradient.unit
            THEN max_concentration * gradient.unit
            ELSE IF @[g] < 0 THEN 0 ELSE @[g]]]

\* np.pad(gradient, 1, mode="constant", constant_values=0): every axis of
\* the array gets one entry before and one after
np_pad(gradient) ==
    [shape |-> [d \in 1 .. 3 |-> gradient.shape[d] + 2],
     data |-> [g \in BinCoords([d \in 1 .. 3 |-> gradient.shape[d] + 2]) |->
                  IF \A d \in 1 .. 3 : 1 <= g[d] /\ g[d] <= gradient.shape[d]
                  THEN gradient.data[<<g[1] - 1, g[2] - 1, g[3] - 1>>]
                  ELSE 0],
     unit |-> gradient.unit]

\* a kernel that leaves the edges of base as they are
Reflect_none(base) == base.data

\* base[:, 0] = base[:, 1]; base[:, -1] = base[:, -2];
\* base[0, :] = base[1, :]; base[-1, :] = base[-2, :]
Reflect(base) ==
    LET X == base.shape[1]
        Y == base.shape[2]
        s1 == [g \in DOMAIN base.data |->
                  IF g[2] = 0 THEN base.data[<<g[1], 1, g[3]>>] ELSE base.data[g]]
        s2 == [g \in DOMAIN s1 |->
                  IF g[2] = Y - 1 THEN s1[<<g[1], Y - 2, g[3]>>] ELSE s1[g]]
        s3 == [g \in DOMAIN s2 |->
                  IF g[1] = 0 THEN s2[<<1, g[2], g[3]>>] ELSE s2[g]]
    IN [g \in DOMAIN s3 |->
           IF g[1] = X - 1 THEN s3[<<X - 2, g[2], g[3]>>] ELSE s3[g]]

\* the entries base[1:-1, 1:-1] of an array
Inner(shape) ==
    {g \in BinCoords(shape) :
        1 <= g[1] /\ g[1] <= shape[1] - 2 /\ 1 <= g[2] /\ g[2] <= shape[2] - 2}

\* one turn of the loop of update_diffusion_jit with a = num / spat_res2,
\* b = 1 - 4 * a: temp is taken from the reflected array, then
\* base[1:-1, 1:-1] is multiplied by b and temp is added
update_diffusion_pass(base, num, spat_res2) ==
    LET r == Reflect(base)
        temp(g) == num * (r[<<g[1] + 1, g[2], g[3]>>] + r[<<g[1] - 1, g[2], g[3]>>]
                          + r[<<g[1], g[2] + 1, g[3]>>] + r[<<g[1], g[2] - 1, g[3]>>])
    IN [base EXCEPT
           !.data = [g \in DOMAIN r |->
                        IF g \in Inner(base.shape)
                        THEN (spat_res2 - 4 * num) * r[g] + temp(g)
                        ELSE spat_res2 * r[g]],
           !.unit = @ * spat_res2]

\* the numerator of a in turn i of the loop: last_dt on the last turn
Coefficient(i, steps, diffuse_dt, last_dt, diffuse_const) ==
    IF i = steps - 1 THEN last_dt * diffuse_const ELSE diffuse_dt * diffuse_const

\* return base[1:-1, 1:-1]: the first two axes lose their edges
Returned(base) ==
    [shape |-> <<base.shape[1] - 2, base.shape[2] - 2, base.shape[3]>>,
     data |-> [g \in BinCoords(<<base.shape[1] - 2, base.shape[2] - 2, base.shape[3]>>) |->
                  base.data[<<g[1] + 1, g[2] + 1, g[3]>>]],
     unit |-> base.unit]

----------------------------------------------------------------------------
(* Bulk mutation: functions.update_queue *)

\* the arrays registered by cell_array(): one row per cell
CellArrayNames ==
    {"locations", "radii", "states", "motion", "FGFR", "ERK", "GATA6", "NANOG",
     "div_counters", "diff_counters", "death_counters", "fds_counters",
     "motility_forces", "jkr_forces"}

\* np.concatenate((array, array[indices]))
np_concatenate(array, indices) ==
    LET n == Len0(array)
    IN [k \in Range0(n + Len(indices)) |->
           IF k < n THEN array[k] ELSE array[indices[k - n + 1]]]

\* a removal that leaves the rows of an array as they are
np_delete_none(array, indices) == array

\* np.delete(array, indices): the rows at the indices are dropped, the
\* others keep their order
np_delete(array, indices) ==
    LET keep == SelectSeq(Indices(Len0(array)), LAMBDA i : i \notin SeqToSet(indices))
    IN [k \in Range0(Len(keep)) |-> array[keep[k + 1]]]

\* a division that moves the daughter along with the mother
RECURSIVE DividePairs_same(_, _, _)
DividePairs_same(sim, vectors, i) ==
    IF i >= Len(sim.cells_to_divide) THEN sim
    ELSE LET mother_index == sim.cells_to_divide[i + 1]
             daughter_index == sim.number_cells + i
             division_position == vectors[i + 1]
             s1 == [sim EXCEPT !.locations[mother_index] = VAdd(@, division_position)]
             s2 == [s1 EXCEPT !.locations[daughter_index] = VAdd(@, division_position)]
             s3 == [s2 EXCEPT !.radii[daughter_index] = sim.min_radius,
                              !.div_counters[daughter_index] = 0]
         IN DividePairs_same([s3 EXCEPT !.radii[mother_index] = sim.min_radius,
                                        !.div_counters[mother_index] = 0],
                             vectors, i + 1)

\* The division part of update_queue (before the vertices are added): every
\* cell array receives a copy of the rows of the dividing cells, then mother
\* i and daughter number_cells + i are moved apart by vectors[i + 1] and
\* reset to min_radius and a zero division counter, one pair after another.
RECURSIVE DividePairs(_, _, _)
DividePairs(sim, vectors, i) ==
    IF i >= Len(sim.cells_to_divide) THEN sim
    ELSE LET mother_index == sim.cells_to_divide[i + 1]
             daughter_index == sim.number_cells + i
             division_position == vectors[i + 1]
             s1 == [sim EXCEPT !.locations[mother_index] = VAdd(@, division_position)]
             s2 == [s1 EXCEPT !.locations[daughter_index] = VSub(@, division_position)]
             s3 == [s2 EXCEPT !.radii[daughter_index] = sim.min_radius,
                              !.div_counters[daughter_index] = 0]
         IN DividePairs([s3 EXCEPT !.radii[mother_index] = sim.min_radius,
                                   !.div_counters[mother_index] = 0],
                        vectors, i + 1)

\* a division whose daughters start Pluripotent
update_queue_divide_fresh(sim, vectors) ==
    [DividePairs([name \in DOMAIN sim |->
                     IF name \in CellArrayNames
                     THEN np_concatenate(sim[name], sim.cells_to_divide)
                     ELSE sim[name]],
                 vectors, 0)
     EXCEPT !.states = [k \in DOMAIN @ |->
                           IF k >= sim.number_cells THEN "Pluripotent" ELSE @[k]]]

update_queue_divide(sim, vectors) ==
    DividePairs([name \in DOMAIN sim |->
                    IF name \in CellArrayNames
                    THEN np_concatenate(sim[name], sim.cells_to_divide)
                    ELSE sim[name]],
                vectors, 0)

\* a group that takes every cell still to add
group_size_all(group, remaining) == remaining

\* the size n of the next group: group cells, or those that remain if fewer
group_size(group, remaining) ==
    IF remaining >= group THEN group ELSE remaining

\* the vertices of n new cells are added and counted
update_queue_add(sim, n) ==
    [sim EXCEPT !.neighbor_graph = add_vertices(@, n),
                !.jkr_graph = add_vertices(@, n),
                !.number_cells = @ + n]

\* a removal part that counts in number_cells the distinct rows of the
\* dividing cells instead of the rows removed
update_queue_remove_count(sim) ==
    LET indices == sim.cells_to_remove
        s1 == [name \in DOMAIN sim |->
                  IF name \in CellArrayNames THEN np_delete(sim[name], indices)
                  ELSE sim[name]]
    IN [s1 EXCEPT !.neighbor_graph = delete_vertices(@, SeqToSet(indices)),
                  !.jkr_graph = delete_vertices(@, SeqToSet(indices)),
                  !.number_cells = @ - Len(sim.cells_to_divide),
                  !.cells_to_divide = <<>>,
                  !.cells_to_remove = <<>>]

\* the removal part of update_queue, and the clearing of the mark arrays
update_queue_remove(sim) ==
    LET indices == sim.cells_to_remove
        s1 == [name \in DOMAIN sim |->
                  IF name \in CellArrayNames THEN np_delete(sim[name], indices)
                  ELSE sim[name]]
    IN [s1 EXCEPT !.neighbor_graph = delete_vertices(@, SeqToSet(indices)),
                  !.jkr_graph = delete_vertices(@, SeqToSet(indices)),
                  !.number_cells = @ - Len(indices),
                  !.cells_to_divide = <<>>,
                  !.cells_to_remove = <<>>]

\* backend.random_vector times (max_radius - min_radius), for the angles 0
\* and pi of the 2D case
DivisionVectors(sim) ==
    {<<sim.max_radius - sim.min_radius, 0, 0>>,
     <<sim.min_radius - sim.max_radius, 0, 0>>}

----------------------------------------------------------------------------
(* The Simulation object *)

\* np.zeros((n, 3))
Zeros(n) == [i \in Range0(n) |-> ZeroVec]

\* the parameters read from the setup files; the growth rates are
\* (max_radius - min_radius) / threshold
Config(size, group, pluri_div_thresh, diff_div_thresh, step_dt, move_dt) ==
    [size |-> size, group |-> group, field |-> 2,
     pluri_div_thresh |-> pluri_div_thresh, diff_div_thresh |-> diff_div_thresh,
     pluri_to_diff |-> 1, death_thresh |-> 2, lonely_cell |-> 1, fds_thresh |-> 1,
     min_radius |-> 2, max_radius |-> 4,
     pluri_growth |-> (4 - 2) \div pluri_div_thresh,
     diff_growth |-> (4 - 2) \div diff_div_thresh,
     max_concentration |-> 4, spat_res |-> 8, step_dt |-> step_dt,
     move_dt |-> move_dt,
     diff_surround |-> DiffSurround, contact_inhibit |-> ContactInhibit]

\* the object after Base.__init__, add_cells(n) and the cell_array() calls,
\* cell[i] giving the initial parameters of cell i
NewSimulation(cfg, n, cell, beginning_step) ==
    [size |-> cfg.size, group |-> cfg.group, field |-> cfg.field,
     pluri_div_thresh |-> cfg.pluri_div_thresh,
     diff_div_thresh |-> cfg.diff_div_thresh,
     pluri_to_diff |-> cfg.pluri_to_diff, death_thresh |-> cfg.death_thresh,
     lonely_cell |-> cfg.lonely_cell, fds_thresh |-> cfg.fds_thresh,
     min_radius |-> cfg.min_radius, max_radius |-> cfg.max_radius,
     pluri_growth |-> cfg.pluri_growth, diff_growth |-> cfg.diff_growth,
     max_concentration |-> cfg.max_concentration, spat_res |-> cfg.spat_res,
     step_dt |-> cfg.step_dt, move_dt |-> cfg.move_dt,
     diff_surround |-> cfg.diff_surround, contact_inhibit |-> cfg.contact_inhibit,
     guye_move |-> FALSE, eunbi_move |-> FALSE,
     nearest_gata6 |-> [i \in Range0(n) |-> -1],
     nearest_nanog |-> [i \in Range0(n) |-> -1],
     nearest_diff |-> [i \in Range0(n) |-> -1],
     number_cells |-> n, beginning_step |-> beginning_step,
     current_step |-> beginning_step,
     cells_to_divide |-> <<>>, cells_to_remove |-> <<>>,
     neighbor_graph |-> EmptyGraph(n), jkr_graph |-> EmptyGraph(n),
     locations |-> [i \in Range0(n) |-> cell[i].location],
     radii |-> [i \in Range0(n) |-> cell[i].radius],
     states |-> [i \in Range0(n) |-> "Pluripotent"],
     motion |-> [i \in Range0(n) |-> TRUE],
     FGFR |-> [i \in Range0(n) |-> 0], ERK |-> [i \in Range0(n) |-> 0],
     GATA6 |-> [i \in Range0(n) |-> cell[i].GATA6],
     NANOG |-> [i \in Range0(n) |-> 1 - cell[i].GATA6],
     div_counters |-> [i \in Range0(n) |-> cell[i].div_counter],
     diff_counters |-> [i \in Range0(n) |-> 0],
     death_counters |-> [i \in Range0(n) |-> cell[i].death_counter],
     fds_counters |-> [i \in Range0(n) |-> 0],
     motility_forces |-> [i \in Range0(n) |-> cell[i].motility_force],
     jkr_forces |-> Zeros(n),
     fgf4_values |-> [g \in BinCoords(<<(cfg.size[1] \div cfg.spat_res) + 1,
                                        (cfg.size[2] \div cfg.spat_res) + 1,
                                        (cfg.size[3] \div cfg.spat_res) + 1>>) |-> 0]]

\* the function attributes created under hasattr(): capacities and the
\* number of sub-steps, kept between calls (steps = 0: not created yet)
NewStatic(max_cells, max_neighbors) ==
    [check_max_neighbors |-> max_neighbors, check_max_cells |-> max_cells,
     jkr_max_neighbors |-> InitMaxNeighbors, jkr_max_cells |-> InitMaxCells,
     steps |-> 0]

\* the position in the driver and in update_queue: who called
\* handle_movement, the sub-step i, the cells still to add, the size n of
\* the group being added, and the phases the driver has completed
NewFrame(mode) ==
    [mode |-> mode, caller |-> "driver", i |-> 0, remaining |-> 0, n |-> 0,
     phases |-> 0, budget |-> MaxPhases,
     steps |-> 0, last_dt |-> 0, base |-> <<>>]

\* observations kept for the properties: of the last two searches, of the
\* last jkr_neighbors, force pass and integration, of the running
\* update_queue (uq at its entry, pre and pre_uid before its removal part),
\* and the identity uid[i] of the cell in row i
NewHist(n) ==
    [last_valid |-> FALSE, last_edges |-> {}, prev_valid |-> FALSE, prev_edges |-> {},
     bin_passes |-> 0, edge_passes |-> 0, oob_in |-> FALSE, oob_out |-> FALSE,
     after |-> "init",
     pass |-> [edges |-> <<>>, lost |-> {}, before |-> <<>>, after |-> <<>>, locations |-> <<>>,
               radii |-> <<>>],
     tentative |-> <<>>,
     lost |-> 0, hm_calls |-> 0, groups |-> <<>>,
     uq |-> [number_cells |-> n, divide |-> <<>>, remove |-> <<>>],
     pre |-> [number_cells |-> 0], pre_uid |-> <<>>,
     jkr_before |-> <<>>, jkr_added |-> <<>>,
     uid |-> [i \in Range0(n) |-> i], next_uid |-> n, marked |-> {},
     forced |-> {}, pushed |-> {}, clipped |-> FALSE, mass |-> [sum |-> 0, unit |-> 1],
     order |-> <<>>, applied |-> <<>>, turns |-> <<>>,
     jkr_passes |-> [bins |-> 0, edges |-> 0]]

----------------------------------------------------------------------------
(* Actions: one per phase of a step, per part of update_queue and per call
   of handle_movement *)

\* the order of the phases of a step
AfterPhase(phase) ==
    CASE frame.mode = "search" -> "searched"
      [] frame.mode = "phase" -> "done"
      [] phase = "check_neighbors" -> "cell_death"
      [] phase = "cell_death" -> "cell_diff_surround"
      [] phase = "cell_diff_surround" -> "cell_growth"
      [] phase = "cell_growth" -> "cell_division"
      [] phase = "cell_division" -> "cell_pathway"
      [] phase = "cell_pathway" -> "update_queue"
      [] phase = "update_queue" -> "handle_movement"
      [] phase = "handle_movement" ->
            IF frame.mode = "move" THEN "done" ELSE "step_end"
      [] OTHER -> "done"

\* functions.check_neighbors; np.amax(edge_count) raises on an empty array
CheckNeighbors ==
    /\ pc = "check_neighbors"
    /\ frame.phases < frame.budget
    /\ \E B \in {assign_bins(simulation.size, simulation.locations,
                             simulation.number_cells, neighbor_distance,
                             static.check_max_cells)} :
       IF simulation.number_cells = 0
       THEN /\ pc' = "raised"
            /\ simulation' = [simulation EXCEPT
                    !.neighbor_graph = delete_all_edges(@)]
            /\ static' = [static EXCEPT !.check_max_cells = B.max_cells]
            /\ UNCHANGED <<frame, hist>>
       ELSE \E r \in {check_neighbors(simulation, static)} :
               /\ simulation' = [simulation EXCEPT !.neighbor_graph = r.graph]
               /\ static' = [static EXCEPT !.check_max_cells = r.max_cells,
                                           !.check_max_neighbors = r.max_neighbors]
               /\ hist' = [hist EXCEPT !.prev_valid = hist.last_valid,
                                       !.prev_edges = hist.last_edges,
                                       !.last_valid = TRUE,
                                       !.last_edges = EdgeSet(r.graph),
                                       !.bin_passes = r.bin_passes,
                                       !.edge_passes = r.edge_passes,
                                       !.oob_in = r.oob_in, !.oob_out = r.oob_out,
                                       !.after = "check_neighbors"]
               /\ pc' = AfterPhase("check_neighbors")
               /\ frame' = [frame EXCEPT !.phases = @ + 1]

\* functions.cell_death; the identities of the marked cells are noted
CellDeath ==
    /\ pc = "cell_death"
    /\ frame.phases < frame.budget
    /\ \E s \in {cell_death(simulation)} :
          /\ simulation' = s
          /\ hist' = [hist EXCEPT !.after = "cell_death",
                         !.marked = {hist.uid[s.cells_to_remove[k]] :
                                        k \in 1 .. Len(s.cells_to_remove)}]
    /\ pc' = AfterPhase("cell_death")
    /\ frame' = [frame EXCEPT !.phases = @ + 1]
    /\ UNCHANGED static

\* functions.cell_diff_surround; the identities of the cells it set to
\* GATA6 high are noted
CellDiffSurround ==
    /\ pc = "cell_diff_surround"
    /\ frame.phases < frame.budget
    /\ simulation' = cell_diff_surround(simulation)
    /\ hist' = [hist EXCEPT !.after = "cell_diff_surround",
                   !.forced = {hist.uid[index] :
                                 index \in {i \in Range0(simulation.number_cells) :
                                    /\ simulation.states[i] = "Pluripotent"
                                    /\ simulation.GATA6[i] < simulation.field - 1
                                    /\ simulation'.GATA6[i] = simulation.field - 1}}]
    /\ pc' = AfterPhase("cell_diff_surround")
    /\ frame' = [frame EXCEPT !.phases = @ + 1]
    /\ UNCHANGED static

\* functions.cell_growth
CellGrowth ==
    /\ pc = "cell_growth"
    /\ frame.phases < frame.budget
    /\ simulation' = cell_growth(simulation)
    /\ hist' = [hist EXCEPT !.after = "cell_growth"]
    /\ pc' = AfterPhase("cell_growth")
    /\ frame' = [frame EXCEPT !.phases = @ + 1]
    /\ UNCHANGED static

\* functions.cell_division, for every outcome of the draws
CellDivision ==
    /\ pc = "cell_division"
    /\ frame.phases < frame.budget
    /\ \E randint \in [DivisionDraws(simulation) -> {0, 1}] :
          simulation' = cell_division(simulation, randint)
    /\ hist' = [hist EXCEPT !.after = "cell_division"]
    /\ pc' = AfterPhase("cell_division")
    /\ frame' = [frame EXCEPT !.phases = @ + 1]
    /\ UNCHANGED static

\* functions.cell_pathway, for every outcome of the draws; a diffusion
\* point outside the grid raises IndexError
CellPathway ==
    /\ pc = "cell_pathway"
    /\ frame.phases < frame.budget
    /\ \E randint \in [Range0(simulation.number_cells) -> {0, 1}] :
       \E r \in {cell_pathway(simulation, randint)} :
          /\ \A i \in Range0(simulation.number_cells) \ r.drew : randint[i] = 0
          /\ simulation' = r.sim
          /\ pc' = IF r.raised THEN "raised" ELSE AfterPhase("cell_pathway")
    /\ hist' = [hist EXCEPT !.after = "cell_pathway"]
    /\ frame' = [frame EXCEPT !.phases = @ + 1]
    /\ UNCHANGED static

\* update_queue up to the choice between staggered and bulk addition: the
\* rows of the daughters are appended and the pairs moved apart. The
\* population is capped at MaxCells.
UpdateQueue ==
    /\ pc = "update_queue"
    /\ frame.phases < frame.budget
    /\ \/ Len(simulation.cells_to_divide) = 0
       \/ simulation.number_cells + Len(simulation.cells_to_divide) <= MaxCells
    /\ \E vectors \in [1 .. Len(simulation.cells_to_divide) -> DivisionVectors(simulation)] :
          simulation' = update_queue_divide(simulation, vectors)
    /\ frame' = [frame EXCEPT !.remaining = Len(simulation.cells_to_divide), !.n = 0]
    /\ hist' = [hist EXCEPT
                   !.after = "divide", !.hm_calls = 0, !.groups = <<>>,
                   !.uq = [number_cells |-> simulation.number_cells,
                           divide |-> simulation.cells_to_divide,
                           remove |-> simulation.cells_to_remove],
                   !.uid = [k \in Range0(simulation.number_cells
                                         + Len(simulation.cells_to_divide)) |->
                               IF k < simulation.number_cells THEN hist.uid[k]
                               ELSE hist.next_uid + k - simulation.number_cells],
                   !.next_uid = @ + Len(simulation.cells_to_divide)]
    /\ pc' = "add_cells"
    /\ UNCHANGED static

\* the addition of the new cells: with group = 0 all at once, otherwise one
\* group per turn of the while loop, each followed by handle_movement
UpdateQueueAdd ==
    /\ pc = "add_cells"
    /\ IF simulation.group # 0 /\ frame.remaining > 0
       THEN \E n \in {group_size(simulation.group, frame.remaining)} :
               /\ simulation' = update_queue_add(simulation, n)
               /\ frame' = [frame EXCEPT !.n = n, !.caller = "update_queue"]
               /\ hist' = [hist EXCEPT !.after = "add_group",
                              !.groups = Append(@,
                                  [remaining |-> frame.remaining,
                                   number_cells |-> simulation'.number_cells
                                                    - simulation.number_cells,
                                   neighbor_graph |-> simulation'.neighbor_graph.nv
                                                      - simulation.neighbor_graph.nv,
                                   jkr_graph |-> simulation'.jkr_graph.nv
                                                 - simulation.jkr_graph.nv,
                                   hm_calls |-> hist.hm_calls])]
               /\ pc' = "handle_movement"
       ELSE /\ simulation' = IF simulation.group # 0 THEN simulation
                             ELSE update_queue_add(simulation, frame.remaining)
            /\ frame' = [frame EXCEPT !.remaining = 0, !.n = 0]
            /\ hist' = [hist EXCEPT !.after = "add_cells", !.pre = simulation']
            /\ pc' = "remove_cells"
    /\ UNCHANGED static

\* the removal part of update_queue; update_queue returns
UpdateQueueRemove ==
    /\ pc = "remove_cells"
    /\ simulation' = update_queue_remove(simulation)
    /\ hist' = [hist EXCEPT !.after = "update_queue",
                            !.pre_uid = hist.uid,
                            !.uid = np_delete(@, simulation.cells_to_remove)]
    /\ frame' = [frame EXCEPT !.caller = "driver", !.phases = @ + 1]
    /\ pc' = AfterPhase("update_queue")
    /\ UNCHANGED static

\* entry of handle_movement: the number of sub-steps is computed on the
\* first call only
HandleMovement ==
    /\ pc = "handle_movement"
    /\ frame.caller = "driver" => frame.phases < frame.budget
    /\ static' = [static EXCEPT !.steps =
                     IF @ = 0 THEN CeilDiv(simulation.step_dt, simulation.move_dt)
                     ELSE @]
    /\ frame' = [frame EXCEPT !.i = 0]
    /\ hist' = [hist EXCEPT !.after = "enter_movement",
                            !.hm_calls = IF frame.caller = "update_queue"
                                         THEN @ + 1 ELSE @]
    /\ pc' = IF static'.steps > 0 THEN "jkr_neighbors" ELSE "end_movement"
    /\ UNCHANGED simulation

\* functions.jkr_neighbors; np.amax(edge_count) raises on an empty array
JkrNeighbors ==
    /\ pc = "jkr_neighbors"
    /\ IF simulation.number_cells = 0
       THEN /\ pc' = "raised"
            /\ UNCHANGED <<simulation, static, frame, hist>>
       ELSE \E r \in {jkr_neighbors(simulation, static)} :
               /\ simulation' = [simulation EXCEPT !.jkr_graph = r.graph]
               /\ static' = [static EXCEPT !.jkr_max_cells = r.max_cells,
                                           !.jkr_max_neighbors = r.max_neighbors]
               /\ hist' = [hist EXCEPT !.after = "jkr_neighbors",
                                       !.jkr_before = simulation.jkr_graph.es,
                                       !.jkr_added = r.added,
                                       !.jkr_passes = [bins |-> r.bin_passes,
                                                       edges |-> r.edge_passes]]
               /\ pc' = "get_forces"
               /\ UNCHANGED frame

\* functions.get_forces, for every outcome of the parallel loop
GetForces ==
    /\ pc = "get_forces"
    /\ \E r \in get_forces(simulation, MaxLost - hist.lost) :
          /\ simulation' = [simulation EXCEPT !.jkr_graph = r.graph,
                                              !.jkr_forces = r.forces]
          /\ hist' = [hist EXCEPT !.after = "get_forces",
                         !.lost = @ + Cardinality(r.lost),
                         !.pass = [edges |-> simulation.jkr_graph.es,
                                   lost |-> r.lost,
                                   before |-> simulation.jkr_forces,
                                   after |-> r.forces,
                                   locations |-> simulation.locations,
                                   radii |-> simulation.radii]]
    /\ pc' = "apply_forces"
    /\ UNCHANGED <<static, frame>>

\* functions.get_forces with simulation.parallel set, for every outcome of
\* the kernel
GetForcesGpu ==
    /\ pc = "get_forces_gpu"
    /\ \E r \in get_forces_gpu(simulation, MaxLost - hist.lost) :
          /\ simulation' = [simulation EXCEPT !.jkr_graph = r.graph,
                                              !.jkr_forces = r.forces]
          /\ hist' = [hist EXCEPT !.after = "get_forces_gpu",
                         !.lost = @ + Cardinality(r.lost),
                         !.pass = [edges |-> simulation.jkr_graph.es,
                                   lost |-> r.lost,
                                   before |-> simulation.jkr_forces,
                                   after |-> r.forces,
                                   locations |-> simulation.locations,
                                   radii |-> simulation.radii]]
    /\ pc' = "apply_forces"
    /\ UNCHANGED <<static, frame>>

\* functions.apply_forces: the rows of the first number_cells cells are
\* integrated and clamped, then jkr_forces is a new array of number_cells
\* zero rows. A force array with fewer rows is read beyond its end. The
\* motility force read for each cell is noted.
ApplyForces ==
    /\ pc = "apply_forces"
    /\ \E garbage \in IF /\ Len0(simulation.jkr_forces) >= simulation.number_cells
                         /\ Len0(simulation.motility_forces) >= simulation.number_cells
                      THEN {ZeroVec} ELSE GarbageRows :
          /\ simulation' = [simulation EXCEPT
                !.locations = apply_forces_cpu(simulation.number_cells,
                                  simulation.jkr_forces, simulation.motility_forces,
                                  simulation.locations, simulation.radii,
                                  simulation.size, simulation.move_dt, garbage),
                !.jkr_forces = Zeros(simulation.number_cells)]
          /\ hist' = [hist EXCEPT !.after = "apply_forces",
                !.applied = [i \in Range0(simulation.number_cells) |->
                    RowOr(simulation.motility_forces, i, garbage)],
                !.tentative = [i \in Range0(simulation.number_cells) |->
                    Tentative(RowOr(simulation.jkr_forces, i, garbage),
                              RowOr(simulation.motility_forces, i, garbage),
                              simulation.locations[i], simulation.radii[i],
                              simulation.move_dt)]]
    /\ frame' = [frame EXCEPT !.i = @ + 1]
    /\ pc' = IF frame.i + 1 < static.steps THEN "jkr_neighbors" ELSE "end_movement"
    /\ UNCHANGED static

\* the end of handle_movement: motility_forces is a new array of
\* number_cells zero rows; back in update_queue the group is counted off
HandleMovementEnd ==
    /\ pc = "end_movement"
    /\ simulation' = [simulation EXCEPT
            !.motility_forces = Zeros(simulation.number_cells)]
    /\ hist' = [hist EXCEPT !.after = "handle_movement"]
    /\ IF frame.caller = "update_queue"
       THEN /\ frame' = [frame EXCEPT !.remaining = @ - frame.n]
            /\ pc' = "add_cells"
       ELSE /\ pc' = AfterPhase("handle_movement")
            /\ frame' = [frame EXCEPT !.phases = @ + 1]
    /\ UNCHANGED static

\* functions.cell_motility, for every value of the random vectors; the cells
\* whose motility force received an addition are noted
CellMotility ==
    /\ pc = "cell_motility"
    /\ frame.phases < frame.budget
    /\ \E random \in [MotilityDraws(simulation) -> RandomVectors(simulation.size)] :
          simulation' = cell_motility(simulation, random)
    /\ hist' = [hist EXCEPT !.after = "cell_motility",
                   !.pushed = {index \in Range0(simulation.number_cells) :
                                  MotilityBranch(simulation, index).force # "none"}]
    /\ pc' = AfterPhase("cell_motility")
    /\ frame' = [frame EXCEPT !.phases = @ + 1]
    /\ UNCHANGED static

\* update_diffusion up to the call of the kernel: the number of turns, the
\* clipped gradient and the padded array
UpdateDiffusion ==
    /\ pc = "update_diffusion"
    /\ frame' = [frame EXCEPT
           !.i = 0,
           !.steps = simulation.step_dt \div simulation.diffuse_dt,
           !.base = np_pad(Clip(simulation.fgf4_values, simulation.max_concentration))]
    /\ hist' = [hist EXCEPT !.after = "pad",
                   !.clipped = Clip(simulation.fgf4_values, simulation.max_concentration)
                                  # simulation.fgf4_values]
    /\ pc' = IF simulation.step_dt \div simulation.diffuse_dt > 0
             THEN "diffuse" ELSE "end_diffusion"
    /\ UNCHANGED <<simulation, static>>

\* one turn of the loop of update_diffusion_jit; the time step of the turn
\* is noted
DiffuseStep ==
    /\ pc = "diffuse"
    /\ frame' = [frame EXCEPT
           !.i = @ + 1,
           !.base = update_diffusion_pass(frame.base,
                        Coefficient(frame.i, frame.steps, simulation.diffuse_dt,
                                    frame.last_dt, simulation.diffuse),
                        simulation.spat_res2)]
    /\ hist' = [hist EXCEPT !.after = "diffuse",
                   !.turns = Append(@, Coefficient(frame.i, frame.steps,
                                           simulation.diffuse_dt, frame.last_dt, 1))]
    /\ pc' = IF frame.i + 1 < frame.steps THEN "diffuse" ELSE "end_diffusion"
    /\ UNCHANGED <<simulation, static>>

\* the return of the kernel and the end of update_diffusion: the returned
\* array is clipped and becomes the gradient
UpdateDiffusionEnd ==
    /\ pc = "end_diffusion"
    /\ simulation' = [simulation EXCEPT
           !.fgf4_values = Clip(Returned(frame.base), simulation.max_concentration)]
    /\ hist' = [hist EXCEPT !.after = "update_diffusion",
                   !.clipped = @ \/ Clip(Returned(frame.base), simulation.max_concentration)
                                       # Returned(frame.base)]
    /\ pc' = "done"
    /\ UNCHANGED <<static, frame>>

\* the end of a step: the step counter advances
StepEnd ==
    /\ pc = "step_end"
    /\ simulation' = [simulation EXCEPT !.current_step = @ + 1]
    /\ hist' = [hist EXCEPT !.after = "step", !.marked = {}]
    /\ pc' = "check_neighbors"
    /\ UNCHANGED <<static, frame>>

----------------------------------------------------------------------------
(* Neighbour-search specification: any placement of NbrCells cells on
   NbrPoints, searched with the first capacities, then searched again with
   the positions unchanged and the capacities the first search left *)

NbrSize == <<16, 16, 0>>

NbrPoints == {<<0, 0, 0>>, <<8, 0, 0>>, <<8, 7, 0>>}

\* a cell as add_cells and the cell_array() calls create it by default
PlainCell(location) ==
    [location |-> location, radius |-> 2, GATA6 |-> 0, div_counter |-> 0,
     death_counter |-> 0, motility_force |-> ZeroVec]

InitSearch ==
    /\ \E locations \in [Range0(NbrCells) -> NbrPoints] :
          simulation = NewSimulation(Config(NbrSize, 0, 2, 2, 1, 1), NbrCells,
                          [i \in Range0(NbrCells) |-> PlainCell(locations[i])], 1)
    /\ static = NewStatic(InitMaxCells, InitMaxNeighbors)
    /\ pc = "check_neighbors"
    /\ frame = NewFrame("search")
    /\ hist = NewHist(NbrCells)

\* the next step calls check_neighbors with the positions left as they are
Stay ==
    /\ pc = "searched"
    /\ ~hist.prev_valid
    /\ pc' = "check_neighbors"
    /\ UNCHANGED <<simulation, static, frame, hist>>

NextSearch == CheckNeighbors \/ Stay

SpecSearch == InitSearch /\ [][NextSearch]_vars

\* the two searches followed by the jkr_neighbors of the first sub-step of
\* handle_movement, on the same placements
SpecRetry ==
    InitSearch
       /\ [][\/ NextSearch
             \/ JkrNeighbors
             \/ /\ pc = "searched"
                /\ hist.prev_valid
                /\ pc' = "jkr_neighbors"
                /\ UNCHANGED <<simulation, static, frame, hist>>]_vars

----------------------------------------------------------------------------
(* Movement specification: one call of handle_movement on three cells
   placed as one of MoveLayouts, each with any of MoveForces as motility
   force *)

MoveSize == <<8, 8, 0>>

\* a chain of three cells in contact, in two index orders, and two cells
\* at one place with a third in contact
MoveLayouts ==
    {<<(<<0, 0, 0>>), (<<4, 0, 0>>), (<<8, 0, 0>>)>>,
     <<(<<4, 0, 0>>), (<<8, 0, 0>>), (<<0, 0, 0>>)>>,
     <<(<<4, 0, 0>>), (<<4, 0, 0>>), (<<8, 0, 0>>)>>}

MoveForces == {<<0, 0, 0>>, <<3, 0, 0>>, <<6, 0, 0>>, <<-6, 6, 0>>}

InitMove ==
    /\ \E layout \in MoveLayouts, forces \in [Range0(3) -> MoveForces] :
          simulation = NewSimulation(Config(MoveSize, 0, 2, 2, 3, 2), 3,
                          [i \in Range0(3) |->
                              [PlainCell(layout[i + 1]) EXCEPT
                                  !.motility_force = forces[i]]], 1)
    /\ static = NewStatic(InitMaxCells, InitMaxNeighbors)
    /\ pc = "handle_movement"
    /\ frame = NewFrame("move")
    /\ hist = NewHist(3)

NextMove ==
    \/ HandleMovement
    \/ JkrNeighbors
    \/ GetForces
    \/ ApplyForces
    \/ HandleMovementEnd

SpecMove == InitMove /\ [][NextMove]_vars

----------------------------------------------------------------------------
(* Main specification: MaxPhases phases of a colony of three cells, two in
   contact and one apart, in either index order; the colony is continued
   after the induction step *)

Size == <<16, 0, 0>>

Layouts ==
    {<<(<<0, 0, 0>>), (<<4, 0, 0>>), (<<16, 0, 0>>)>>,
     <<(<<16, 0, 0>>), (<<0, 0, 0>>), (<<4, 0, 0>>)>>}

\* initial parameters of a cell: about to divide, about to differentiate,
\* or just divided
Ready == [div_counter |-> 2, GATA6 |-> 0]

Primed == [div_counter |-> 1, GATA6 |-> 1]

Young == [div_counter |-> 0, GATA6 |-> 0]

\* a colony: the profiles of the three cells and the death counter they
\* start with
Colonies ==
    {[cells |-> <<Ready, Primed, Ready>>, death_counter |-> 1],
     [cells |-> <<Young, Ready, Primed>>, death_counter |-> 1],
     [cells |-> <<Primed, Young, Young>>, death_counter |-> 1],
     [cells |-> <<Young, Ready, Primed>>, death_counter |-> 0]}

Init ==
    /\ \E layout \in Layouts, group \in {0, 1, 2}, colony \in Colonies :
          simulation = NewSimulation(Config(Size, group, 2, 1, 1, 1), 3,
              [i \in Range0(3) |->
                  [location |-> layout[i + 1], radius |-> 2,
                   GATA6 |-> colony.cells[i + 1].GATA6,
                   div_counter |-> colony.cells[i + 1].div_counter,
                   death_counter |-> colony.death_counter,
                   motility_force |-> ZeroVec]],
              DoxStep + 1)
    /\ static = NewStatic(InitMaxCells, InitMaxNeighbors)
    /\ pc = "check_neighbors"
    /\ frame = NewFrame("run")
    /\ hist = NewHist(3)

Next ==
    \/ CheckNeighbors
    \/ CellDeath
    \/ CellDiffSurround
    \/ CellGrowth
    \/ CellDivision
    \/ CellPathway
    \/ UpdateQueue
    \/ UpdateQueueAdd
    \/ UpdateQueueRemove
    \/ HandleMovement
    \/ JkrNeighbors
    \/ GetForces
    \/ ApplyForces
    \/ HandleMovementEnd
    \/ StepEnd

Spec == Init /\ [][Next]_vars

----------------------------------------------------------------------------
(* Two-step specification: the same driver followed for LifePhases phases,
   through the update_queue of the second step, on the colony whose death
   counters start at 0 and whose new cells are added at once *)

InitLife ==
    /\ \E layout \in Layouts :
          simulation = NewSimulation(Config(Size, 0, 2, 1, 1, 1), 3,
              [i \in Range0(3) |->
                  [location |-> layout[i + 1], radius |-> 2,
                   GATA6 |-> <<Young, Ready, Primed>>[i + 1].GATA6,
                   div_counter |-> <<Young, Ready, Primed>>[i + 1].div_counter,
                   death_counter |-> 0,
                   motility_force |-> ZeroVec]],
              DoxStep + 1)
    /\ static = NewStatic(InitMaxCells, InitMaxNeighbors)
    /\ pc = "check_neighbors"
    /\ frame = [NewFrame("run") EXCEPT !.budget = LifePhases]
    /\ hist = NewHist(3)

SpecLife == InitLife /\ [][Next]_vars

----------------------------------------------------------------------------
(* Induction specification: one call of cell_diff_surround on seven cells
   that are all proximity neighbors of each other, for every assignment of
   the states, both moduli of the network, every common GATA6 level and the
   configured thresholds of SurroundThresholds *)

SurroundCells == 7

\* all pairs of the cells
AllPairs(n) ==
    SelectSeq([k \in 1 .. n * n |-> <<(k - 1) \div n, (k - 1) % n>>],
              LAMBDA e : e[1] < e[2])

SurroundThresholds == {2, DiffSurround}

InitSurround ==
    /\ \E states \in [Range0(SurroundCells) -> {"Pluripotent", "Differentiated"}],
          field \in {2, 3}, level \in {0, 1, 2}, threshold \in SurroundThresholds :
          /\ level < field
          /\ simulation =
                [NewSimulation(Config(Size, 0, 2, 1, 1, 1), SurroundCells,
                     [i \in Range0(SurroundCells) |->
                         [location |-> <<i, 0, 0>>, radius |-> 2,
                          GATA6 |-> level, div_counter |-> 0,
                          death_counter |-> 0, motility_force |-> ZeroVec]],
                     DoxStep + 1)
                 EXCEPT !.states = states, !.field = field,
                        !.NANOG = [i \in Range0(SurroundCells) |-> field - 1 - level],
                        !.diff_surround = threshold,
                        !.neighbor_graph =
                            simplify(add_edges(@, AllPairs(SurroundCells)))]
    /\ static = NewStatic(InitMaxCells, InitMaxNeighbors)
    /\ pc = "cell_diff_surround"
    /\ frame = NewFrame("phase")
    /\ hist = NewHist(SurroundCells)

NextSurround == CellDiffSurround

SpecSurround == InitSurround /\ [][NextSurround]_vars

----------------------------------------------------------------------------
(* One-step specification: one step of the driver on the cells of
   StepLayout, within neighbor_distance of each other, cell 0 Pluripotent below GATA6
   high with any levels of FGFR, ERK and NANOG, the others Differentiated
   (or the last one Pluripotent) with the same levels, at their division
   threshold of 3 steps, for both moduli of the network and three contents of the
   FGF4 grid *)

StepPhases == 8

StepSize == <<8, 8, 0>>

\* seven places within neighbor_distance of each other, three pairs of them
\* in contact
StepLayout ==
    <<(<<4, 2, 0>>), (<<1, 8, 0>>), (<<7, 5, 0>>), (<<0, 4, 0>>),
      (<<4, 1, 0>>), (<<2, 8, 0>>), (<<6, 7, 0>>)>>

InitStep ==
    /\ \E field \in {2, 3}, fgf4_value \in {0, 2, 3}, last \in {"Pluripotent", "Differentiated"} :
       \E x2, x3, x4, x5 \in Range0(field) :
          /\ x4 < field - 1
          /\ simulation =
                [NewSimulation(Config(StepSize, 0, 2, 3, 1, 1), Len(StepLayout),
                     [i \in Range0(Len(StepLayout)) |->
                         [location |-> StepLayout[i + 1], radius |-> 2,
                          GATA6 |-> IF i = 0 THEN x4 ELSE field - 1,
                          div_counter |->
                             IF i = 0 THEN 1
                             ELSE IF i = Len(StepLayout) - 1 /\ last = "Pluripotent"
                                  THEN 0 ELSE 3,
                          death_counter |-> 0, motility_force |-> ZeroVec]],
                     DoxStep + 1)
                 EXCEPT !.field = field,
                        !.states = [i \in Range0(Len(StepLayout)) |->
                                       IF i = 0 THEN "Pluripotent"
                                       ELSE IF i = Len(StepLayout) - 1 THEN last
                                            ELSE "Differentiated"],
                        !.FGFR = [i \in Range0(Len(StepLayout)) |-> x2],
                        !.ERK = [i \in Range0(Len(StepLayout)) |-> x3],
                        !.NANOG = [i \in Range0(Len(StepLayout)) |->
                                      IF i = 0 THEN x5 ELSE 0],
                        !.fgf4_values = [g \in DOMAIN @ |-> fgf4_value]]
    /\ static = NewStatic(InitMaxCells, InitMaxNeighbors)
    /\ pc = "check_neighbors"
    /\ frame = [NewFrame("run") EXCEPT !.budget = StepPhases]
    /\ hist = NewHist(Len(StepLayout))

SpecStep == InitStep /\ [][Next]_vars

----------------------------------------------------------------------------
(* Division specification: one call of cell_division on three or on
   SurroundCells cells that are all proximity neighbors of each other, for
   every state and division counter of cells 0 and 1 and the configured
   thresholds of InhibitThresholds; the other cells are Differentiated at
   their division threshold *)

InhibitThresholds == {2, ContactInhibit}

InitDivision ==
    /\ \E n \in {3, SurroundCells}, threshold \in InhibitThresholds,
          states \in [{0, 1} -> {"Pluripotent", "Differentiated"}],
          div_counters \in [{0, 1} -> 0 .. 2] :
          simulation =
             [NewSimulation(Config(Size, 0, 2, 1, 1, 1), n,
                  [i \in Range0(n) |->
                      [location |-> <<i, 0, 0>>, radius |-> 2, GATA6 |-> 0,
                       div_counter |-> IF i < 2 THEN div_counters[i] ELSE 1,
                       death_counter |-> 0, motility_force |-> ZeroVec]],
                  DoxStep + 1)
              EXCEPT !.states = [i \in Range0(n) |->
                                    IF i < 2 THEN states[i] ELSE "Differentiated"],
                     !.contact_inhibit = threshold,
                     !.neighbor_graph = simplify(add_edges(@, AllPairs(n)))]
    /\ static = NewStatic(InitMaxCells, InitMaxNeighbors)
    /\ pc = "cell_division"
    /\ frame = NewFrame("phase")
    /\ hist = NewHist(simulation.number_cells)

NextDivision == CellDivision

SpecDivision == InitDivision /\ [][NextDivision]_vars

----------------------------------------------------------------------------
(* Diffusion specification: one call of update_diffusion on a gradient of
   two by two points with every content of DiffuseLevels, for every step_dt
   up to DiffuseSteps and diffuse_dt 1 and 2 (up to DiffuseSteps turns of
   the kernel, step_dt a multiple of diffuse_dt or not) and the
   coefficients a = 1/8, 1/4 and 1/2 (b = 1/2, 0 and -1), the last turn
   with last_dt *)

DiffuseSteps == 3

DiffuseLevels == {0, 1, 4}

DiffuseShape == <<2, 2, 1>>

InitDiffusion ==
    /\ \E data \in [BinCoords(DiffuseShape) -> DiffuseLevels],
          step_dt \in 1 .. DiffuseSteps, diffuse_dt \in {1, 2},
          diffuse \in {1, 2}, last_dt \in {1, 2} :
          /\ simulation = [fgf4_values |-> [shape |-> DiffuseShape, data |-> data,
                                            unit |-> 1],
                           max_concentration |-> 4, step_dt |-> step_dt,
                           diffuse_dt |-> diffuse_dt, diffuse |-> diffuse,
                           spat_res2 |-> 8]
          /\ frame = [NewFrame("diffusion") EXCEPT !.last_dt = last_dt]
    /\ static = NewStatic(InitMaxCells, InitMaxNeighbors)
    /\ pc = "update_diffusion"
    /\ hist = [NewHist(0) EXCEPT
                  !.mass = [sum |-> Total(simulation.fgf4_values), unit |-> 1]]

NextDiffusion ==
    \/ UpdateDiffusion
    \/ DiffuseStep
    \/ UpdateDiffusionEnd

SpecDiffusion == InitDiffusion /\ [][NextDiffusion]_vars

----------------------------------------------------------------------------
(* Motility specification: one call of cell_motility on three or on
   SurroundCells cells that are all proximity neighbors of each other,
   for every state, GATA6, NANOG and motion flag of cell 0, both movement
   rules switched on or off, and cell 0 with or without nearest cells; the
   other cells are Differentiated and moving *)

InitMotility ==
    /\ \E n \in {3, SurroundCells}, state \in {"Pluripotent", "Differentiated"},
          GATA6 \in {0, 1}, NANOG \in {0, 1}, motion \in BOOLEAN,
          guye_move \in BOOLEAN, eunbi_move \in BOOLEAN, nearest \in {-1, 1} :
          simulation =
             [NewSimulation(Config(StepSize, 0, 2, 1, 1, 1), n,
                  [i \in Range0(n) |->
                      [location |-> <<i, 0, 0>>, radius |-> 2,
                       GATA6 |-> IF i = 0 THEN GATA6 ELSE 1,
                       div_counter |-> 0, death_counter |-> 0,
                       motility_force |-> ZeroVec]],
                  DoxStep + 1)
              EXCEPT !.states = [i \in Range0(n) |->
                                    IF i = 0 THEN state ELSE "Differentiated"],
                     !.NANOG = [i \in Range0(n) |-> IF i = 0 THEN NANOG ELSE 0],
                     !.motion = [i \in Range0(n) |-> IF i = 0 THEN motion ELSE TRUE],
                     !.guye_move = guye_move, !.eunbi_move = eunbi_move,
                     !.nearest_gata6 = [@ EXCEPT ![0] = nearest],
                     !.nearest_nanog = [@ EXCEPT ![0] = nearest],
                     !.nearest_diff = [@ EXCEPT ![0] = nearest],
                     !.neighbor_graph = simplify(add_edges(@, AllPairs(n)))]
    /\ static = NewStatic(InitMaxCells, InitMaxNeighbors)
    /\ pc = "cell_motility"
    /\ frame = NewFrame("phase")
    /\ hist = NewHist(simulation.number_cells)

NextMotility == CellMotility

SpecMotility == InitMotility /\ [][NextMotility]_vars


----------------------------------------------------------------------------
(* Driver specification: the while loop of Run.py on a Simulation object of
   Simulation.py, for every end_time up to RunEndTime and the time steps 1
   and 2. The methods are calls of the Simulation object; of each call the
   model keeps that it was made, in hist.order. *)

\* the calls of one turn of the while loop, in the order of the statements
RunOrder ==
    <<"info", "update_gradients", "kill_cells", "diff_surround_cells",
      "update_cells", "change_size_cells", "update_cell_queue",
      "random_movement", "handle_collisions", "save_file">>

\* while Simulation.time_counter <= Simulation.end_time
RunWhile ==
    /\ pc = "while"
    /\ pc' = IF simulation.time_counter <= simulation.end_time
             THEN RunOrder[1] ELSE "image_to_video"
    /\ hist' = [hist EXCEPT !.after = "while",
                   !.order = IF simulation.time_counter <= simulation.end_time
                             THEN <<>> ELSE @]
    /\ UNCHANGED <<simulation, static, frame>>

\* one statement of the body of the loop: the call is made and the next
\* statement follows
RunCall ==
    /\ \E k \in 1 .. Len(RunOrder) :
          /\ pc = RunOrder[k]
          /\ pc' = IF k < Len(RunOrder) THEN RunOrder[k + 1] ELSE "time_counter"
    /\ hist' = [hist EXCEPT !.after = pc, !.order = Append(@, pc)]
    /\ UNCHANGED <<simulation, static, frame>>

\* Simulation.time_counter += Simulation.time_step
RunClock ==
    /\ pc = "time_counter"
    /\ simulation' = [simulation EXCEPT !.time_counter = @ + simulation.time_step]
    /\ hist' = [hist EXCEPT !.after = "time_counter",
                   !.order = Append(@, "time_counter")]
    /\ pc' = "while"
    /\ UNCHANGED <<static, frame>>

InitRun ==
    /\ \E end_time \in 0 .. RunEndTime, time_step \in {1, 2} :
          simulation = [time_counter |-> 0, end_time |-> end_time,
                        time_step |-> time_step]
    /\ static = NewStatic(InitMaxCells, InitMaxNeighbors)
    /\ pc = "while"
    /\ frame = NewFrame("driver")
    /\ hist = NewHist(0)

SpecRun == InitRun /\ [][RunWhile \/ RunCall \/ RunClock]_vars

----------------------------------------------------------------------------
(* Parallel force specification: one call of get_forces on the parallel
   path on 2, 3 or GpuCells cells of radius 2 placed on GpuPoints (the
   cells beyond the points at the first point), the last cell in contact
   with the others or away from them, the contact graph holding an edge
   for every pair *)

GpuCells == 13

\* twelve places within the reach of two radii of each other
GpuPoints ==
    [k \in 1 .. 12 |-> <<(k - 1) % 4, (k - 1) \div 4, 0>>]

InitGpu ==
    /\ \E n \in {2, 3, GpuCells}, away \in BOOLEAN :
          simulation =
             [NewSimulation(Config(MoveSize, 0, 2, 2, 1, 1), n,
                  [i \in Range0(n) |->
                      PlainCell(IF away /\ i = n - 1 THEN <<8, 8, 0>>
                                ELSE IF i < 12 THEN GpuPoints[i + 1]
                                ELSE GpuPoints[1])], 1)
              EXCEPT !.jkr_graph = simplify(add_edges(@, AllPairs(n)))]
    /\ static = NewStatic(InitMaxCells, InitMaxNeighbors)
    /\ pc = "get_forces_gpu"
    /\ frame = NewFrame("phase")
    /\ hist = NewHist(simulation.number_cells)

SpecGpu == InitGpu /\ [][GetForcesGpu]_vars

----------------------------------------------------------------------------
(* Properties *)

\* the pairs of cells within neighbor_distance of each other
CloseSet(locations, number_cells) ==
    {e \in Range0(number_cells) \X Range0(number_cells) :
        /\ e[1] < e[2]
        /\ Dist2(locations[e[1]], locations[e[2]])
              <= neighbor_distance * neighbor_distance}

\* C1: after check_neighbors returns, the edge set of the proximity graph is
\* exactly the set of pairs (i, j), 0 <= i < j < number_cells, at distance
\* <= neighbor_distance
C1_ExactEdges ==
    pc = "searched" =>
        EdgeSet(simulation.neighbor_graph)
            = CloseSet(simulation.locations, simulation.number_cells)

\* a search has returned for a placement with a pair at exactly
\* neighbor_distance, which is an edge, and a pair of adjacent bins farther
\* apart, which is none
C1_Witness ==
    /\ pc = "searched"
    /\ \E e \in EdgeSet(simulation.neighbor_graph) :
          Dist2(simulation.locations[e[1]], simulation.locations[e[2]])
              = neighbor_distance * neighbor_distance
    /\ \E i, j \in Range0(simulation.number_cells) :
          /\ i < j
          /\ Dist2(simulation.locations[i], simulation.locations[j])
                > neighbor_distance * neighbor_distance
          /\ <<i, j>> \notin EdgeSet(simulation.neighbor_graph)

\* every edge joins u < v below number_cells and is stored once
GoodEdges(g, number_cells) ==
    /\ \A k \in 1 .. Len(g.es) :
          0 <= g.es[k][1] /\ g.es[k][1] < g.es[k][2] /\ g.es[k][2] < number_cells
    /\ \A k, l \in 1 .. Len(g.es) : k # l => g.es[k] # g.es[l]

\* C2: in every state between phases every edge (u, v) of the proximity
\* graph and of the contact graph has 0 <= u < v < number_cells, and no edge
\* is stored twice
C2_EdgesWellFormed ==
    /\ GoodEdges(simulation.neighbor_graph, simulation.number_cells)
    /\ GoodEdges(simulation.jkr_graph, simulation.number_cells)

\* jkr_neighbors, called by the driver after an update_queue that removed a
\* cell, found an edge that the contact graph already held
C2_Witness ==
    /\ hist.after = "jkr_neighbors"
    /\ frame.caller = "driver"
    /\ Len(hist.uq.remove) > 0
    /\ SeqToSet(hist.jkr_added) \cap SeqToSet(hist.jkr_before) # {}

\* the edges found by one pass of the search with capacities that suffice
\* for any placement of the cells
SinglePass(sim) ==
    SeqToSet(get_neighbors_cpu(sim.number_cells,
                 assign_bins(sim.size, sim.locations, sim.number_cells,
                             neighbor_distance, sim.number_cells),
                 sim.locations, neighbor_distance, sim.number_cells).edges)

\* C3: the edge set left by check_neighbors is that of a single pass with
\* sufficient capacities, whatever the capacities carried over and whether
\* or not a pass was repeated; a second call with the positions unchanged
\* leaves the same edge set as the first
C3_CapacityIndependent ==
    pc = "searched" =>
        /\ EdgeSet(simulation.neighbor_graph) = SinglePass(simulation)
        /\ hist.prev_valid => hist.prev_edges = hist.last_edges

\* a second search has returned, run with the capacities that the first
\* search raised for the bins and for the edges
C3_Witness ==
    /\ pc = "searched"
    /\ hist.prev_valid
    /\ static.check_max_cells > InitMaxCells
    /\ static.check_max_neighbors > InitMaxNeighbors
    /\ hist.bin_passes = 1
    /\ hist.edge_passes = 1

\* C4: after every sub-step every location of a cell lies in [0, size] on
\* each axis, and a tentative position beyond a bound is set to that bound
C4_Clamped ==
    \A i \in Range0(simulation.number_cells) : \A d \in 1 .. 3 :
        /\ 0 <= simulation.locations[i][d]
        /\ simulation.locations[i][d] <= simulation.size[d]
        /\ hist.after = "apply_forces" =>
              /\ hist.tentative[i][d] > simulation.size[d]
                    => simulation.locations[i][d] = simulation.size[d]
              /\ hist.tentative[i][d] < 0 => simulation.locations[i][d] = 0

\* apply_forces has returned a cell from beyond the upper bound of an axis
\* and a cell from below zero
C4_Witness ==
    /\ hist.after = "apply_forces"
    /\ \E i \in Range0(simulation.number_cells) : \E d \in 1 .. 3 :
          hist.tentative[i][d] > simulation.size[d]
    /\ \E i \in Range0(simulation.number_cells) : \E d \in 1 .. 3 :
          hist.tentative[i][d] < 0

\* C5: in every reachable state the radius of every cell lies in
\* [min_radius, max_radius]
C5_RadiusBounds ==
    \A i \in Range0(simulation.number_cells) :
        /\ simulation.min_radius <= simulation.radii[i]
        /\ simulation.radii[i] <= simulation.max_radius

\* C6: at the start of every step and after every completed update_queue
\* every array of cell_array_names has number_cells rows and both graphs
\* have number_cells vertices
C6_Aligned ==
    (pc = "check_neighbors" \/ hist.after = "update_queue") =>
        /\ \A name \in CellArrayNames :
              Len0(simulation[name]) = simulation.number_cells
        /\ simulation.neighbor_graph.nv = simulation.number_cells
        /\ simulation.jkr_graph.nv = simulation.number_cells

\* an update_queue that added cells group by group and removed a cell has
\* completed
C6_Witness ==
    /\ hist.after = "update_queue"
    /\ simulation.group > 0
    /\ Len(hist.uq.divide) > simulation.group
    /\ Len(hist.uq.remove) > 0

\* C7: after update_queue number_cells is its value before the call plus the
\* number of cells marked to divide minus the number marked for removal,
\* and both mark arrays are empty
C7_Conservation ==
    hist.after = "update_queue" =>
        /\ simulation.number_cells
              = hist.uq.number_cells + Len(hist.uq.divide) - Len(hist.uq.remove)
        /\ simulation.cells_to_divide = <<>>
        /\ simulation.cells_to_remove = <<>>

\* an update_queue has completed that found one cell marked both to divide
\* and to be removed
C7_Witness ==
    /\ hist.after = "update_queue"
    /\ SeqToSet(hist.uq.divide) \cap SeqToSet(hist.uq.remove) # {}

\* the rows, before the removal part of update_queue, of the cells that
\* cell_death did not mark, in order
Survivors ==
    SelectSeq(Indices(hist.pre.number_cells),
              LAMBDA j : hist.pre_uid[j] \notin hist.marked)

\* C8: the removal of update_queue removes exactly the cells that cell_death
\* marked; row k afterwards holds, in every cell array, the values of the
\* k-th surviving cell, and two rows are joined by an edge of a graph iff
\* the same two cells were joined before the removal
C8_RemovalConsistent ==
    hist.after = "update_queue" =>
        /\ simulation.number_cells = Len(Survivors)
        /\ \A name \in CellArrayNames :
              /\ DOMAIN simulation[name] = Range0(Len(Survivors))
              /\ \A k \in Range0(Len(Survivors)) :
                    simulation[name][k] = hist.pre[name][Survivors[k + 1]]
        /\ \A k1, k2 \in Range0(Len(Survivors)) :
              /\ <<k1, k2>> \in EdgeSet(simulation.neighbor_graph)
                    <=> <<Survivors[k1 + 1], Survivors[k2 + 1]>>
                            \in EdgeSet(hist.pre.neighbor_graph)
              /\ <<k1, k2>> \in EdgeSet(simulation.jkr_graph)
                    <=> <<Survivors[k1 + 1], Survivors[k2 + 1]>>
                            \in EdgeSet(hist.pre.jkr_graph)
        /\ EdgeSet(simulation.neighbor_graph) \cup EdgeSet(simulation.jkr_graph)
              \subseteq Range0(Len(Survivors)) \X Range0(Len(Survivors))

\* an update_queue has completed that removed a cell of a row below two
\* cells joined in both graphs, after cells were added
C8_Witness ==
    /\ hist.after = "update_queue"
    /\ Len(hist.uq.divide) > 0
    /\ Len(Survivors) < hist.pre.number_cells
    /\ \E e \in EdgeSet(simulation.neighbor_graph) \cap EdgeSet(simulation.jkr_graph) :
          Survivors[e[1] + 1] # e[1]

\* C9: with group > 0 and m cells marked to divide update_queue calls
\* handle_movement ceil(m / group) times, each call right after number_cells
\* and both graphs grew by min(group, cells still to add); with group = 0 it
\* never calls handle_movement and adds the m cells at once
C9_StaggeredCalls ==
    /\ \A k \in 1 .. Len(hist.groups) :
          /\ hist.groups[k].number_cells
                = Min2(simulation.group, hist.groups[k].remaining)
          /\ hist.groups[k].neighbor_graph = hist.groups[k].number_cells
          /\ hist.groups[k].jkr_graph = hist.groups[k].number_cells
          /\ hist.groups[k].hm_calls = k - 1
    /\ hist.after = "add_group" => hist.hm_calls = Len(hist.groups) - 1
    /\ (hist.after = "enter_movement" /\ frame.caller = "update_queue")
          => hist.hm_calls = Len(hist.groups)
    /\ hist.after = "update_queue" =>
          IF simulation.group > 0
          THEN hist.hm_calls = CeilDiv(Len(hist.uq.divide), simulation.group)
          ELSE /\ hist.hm_calls = 0
               /\ hist.groups = <<>>
               /\ hist.pre.number_cells
                     = hist.uq.number_cells + Len(hist.uq.divide)
               /\ hist.pre.neighbor_graph.nv = hist.pre.number_cells
               /\ hist.pre.jkr_graph.nv = hist.pre.number_cells

\* an update_queue with two cells to add in groups of one has completed
C9_Witness ==
    /\ hist.after = "update_queue"
    /\ simulation.group = 1
    /\ Len(hist.uq.divide) = 2
    /\ hist.hm_calls = 2

\* what the edges that a pass keeps add to the row of a cell when each adds
\* its force to its first cell and the opposite force to its second
PassSum(P, cell) ==
    SumPushes(UpdatesOf(Updates(P.edges, P.locations, P.radii), P.edges, cell),
              P.edges, P.locations, P.radii)

\* C10: in a force pass an edge with d <= BreakPoint is removed from the
\* contact graph and adds nothing to the force of either endpoint, any
\* other edge stays and adds equal and opposite forces to its endpoints
C10_BondForces ==
    hist.after = "get_forces" =>
        /\ \A k \in 1 .. Len(hist.pass.edges) :
              (EdgeForce(hist.pass.locations, hist.pass.radii,
                         hist.pass.edges[k]).d <= BreakPoint)
                 <=> hist.pass.edges[k] \notin EdgeSet(simulation.jkr_graph)
        /\ \A cell \in DOMAIN hist.pass.before :
              hist.pass.after[cell]
                 = VAdd(hist.pass.before[cell], PassSum(hist.pass, cell))

\* C11: an edge of the contact graph stays in it over every step except a
\* force pass that finds d <= BreakPoint for it and a removal of one of its
\* cells (the edge of two remaining cells follows their rows); in
\* particular jkr_neighbors removes no edge
C11_Additive ==
    [][\A e \in EdgeSet(simulation.jkr_graph) :
          IF pc = "remove_cells"
          THEN (e[1] \notin SeqToSet(simulation.cells_to_remove)
                /\ e[2] \notin SeqToSet(simulation.cells_to_remove))
                  => <<Renumber(SeqToSet(simulation.cells_to_remove), e[1]),
                       Renumber(SeqToSet(simulation.cells_to_remove), e[2])>>
                        \in EdgeSet(simulation'.jkr_graph)
          ELSE IF pc = "get_forces"
               THEN EdgeForce(simulation.locations, simulation.radii, e).d > BreakPoint
                       => e \in EdgeSet(simulation'.jkr_graph)
               ELSE e \in EdgeSet(simulation'.jkr_graph)]_vars

\* jkr_neighbors has returned with an edge in the graph that it did not
\* find: the two cells no longer overlap, and their d is above BreakPoint
C11_Witness ==
    /\ hist.after = "jkr_neighbors"
    /\ \E e \in EdgeSet(simulation.jkr_graph) \ SeqToSet(hist.jkr_added) :
          /\ Dist2(simulation.locations[e[1]], simulation.locations[e[2]])
                > (simulation.radii[e[1]] + simulation.radii[e[2]])
                    * (simulation.radii[e[1]] + simulation.radii[e[2]])
          /\ EdgeForce(simulation.locations, simulation.radii, e).d > BreakPoint

\* the number of entries of an index array that are index
Occurrences(array, index) ==
    Cardinality({k \in 1 .. Len(array) : array[k] = index})

\* C12: cell_death adds 1 to the death counter of a Pluripotent cell whose
\* proximity degree is below lonely_cell and sets it to 0 otherwise; it
\* marks the cell for removal, once, exactly when the counter is then
\* >= death_thresh; it leaves a Differentiated cell unmarked with its
\* counter; and no cell that was marked is present after the update_queue
\* of the same step
C12_Death ==
    [][/\ pc = "cell_death" =>
            \A index \in Range0(simulation.number_cells) :
               IF simulation.states[index] = "Pluripotent"
               THEN /\ simulation'.death_counters[index]
                          = IF Degree(simulation.neighbor_graph, index)
                                  < simulation.lonely_cell
                            THEN simulation.death_counters[index] + 1
                            ELSE 0
                    /\ Occurrences(simulation'.cells_to_remove, index)
                          = IF simulation'.death_counters[index]
                                  >= simulation.death_thresh
                            THEN 1 ELSE 0
               ELSE /\ simulation'.death_counters[index]
                          = simulation.death_counters[index]
                    /\ Occurrences(simulation'.cells_to_remove, index) = 0
       /\ pc = "remove_cells" =>
            /\ SeqToSet(simulation.cells_to_remove)
                  = {index \in Range0(hist.uq.number_cells) :
                        hist.uid[index] \in hist.marked}
            /\ \A index \in Range0(simulation'.number_cells) :
                  hist'.uid[index] \notin hist.marked]_vars

\* the update_queue of the second step has removed a cell of the initial
\* colony that the first step left in place: with death_thresh = 2 its
\* counter went from 0 to 1 in the first step and to 2 in the second; and a
\* Differentiated cell without neighbors is still there
C12_Witness ==
    /\ hist.after = "update_queue"
    /\ simulation.death_thresh = 2
    /\ simulation.current_step = DoxStep + 2
    /\ \E index \in SeqToSet(hist.uq.remove) : hist.pre_uid[index] < 3
    /\ \E index \in Range0(simulation.number_cells) :
          /\ simulation.states[index] = "Differentiated"
          /\ Degree(simulation.neighbor_graph, index) = 0

\* C13: cell_diff_surround sets GATA6 to field - 1 and NANOG to 0 for a
\* Pluripotent cell with GATA6 < field - 1 exactly when the number of its
\* Differentiated proximity neighbors is >= the configured diff_surround,
\* and leaves GATA6 and NANOG of every other cell as they were
C13_Surround ==
    [][pc = "cell_diff_surround" =>
          \A index \in Range0(simulation.number_cells) :
             IF /\ simulation.states[index] = "Pluripotent"
                /\ simulation.GATA6[index] < simulation.field - 1
                /\ DiffNeighbors(simulation, index) >= simulation.diff_surround
             THEN /\ simulation'.GATA6[index] = simulation.field - 1
                  /\ simulation'.NANOG[index] = 0
             ELSE /\ simulation'.GATA6[index] = simulation.GATA6[index]
                  /\ simulation'.NANOG[index] = simulation.NANOG[index]]_vars

\* C14: a cell that cell_diff_surround set to GATA6 = field - 1, NANOG = 0
\* has these values in every later state of the step, up to its end; and
\* cell_pathway leaves every cell with GATA6 = field - 1 and NANOG = 0 at
\* these values, whatever the FGF4 level, FGFR and ERK
C14_ForcedStays ==
    [][/\ \A index \in DOMAIN hist'.uid \cap Range0(simulation'.number_cells) :
             hist'.uid[index] \in hist'.forced =>
                /\ simulation'.GATA6[index] = simulation.field - 1
                /\ simulation'.NANOG[index] = 0
       /\ pc = "cell_pathway" =>
             \A index \in Range0(simulation.number_cells) :
                (simulation.GATA6[index] = simulation.field - 1
                 /\ simulation.NANOG[index] = 0)
                   => /\ simulation'.GATA6[index] = simulation.field - 1
                      /\ simulation'.NANOG[index] = 0]_vars

\* the step has ended with a cell that was forced in it, in the ternary
\* network, with FGFR and ERK both raised by the regulatory update
C14_Witness ==
    /\ hist.after = "step"
    /\ simulation.field = 3
    /\ \E index \in Range0(simulation.number_cells) :
          /\ hist.uid[index] \in hist.forced
          /\ simulation.FGFR[index] > 0
          /\ simulation.ERK[index] > 0

\* C15: cell_division marks a Pluripotent cell iff its division counter is
\* >= pluri_div_thresh and a Differentiated cell iff its counter is
\* >= diff_div_thresh and its proximity degree is below the configured
\* contact_inhibit; the counter of a cell that is not marked grows by 0 or
\* 1 and that of a marked cell is left as it was
C15_Division ==
    [][pc = "cell_division" =>
          \A index \in Range0(simulation.number_cells) :
             /\ Occurrences(simulation'.cells_to_divide, index) > 0
                   <=> IF simulation.states[index] = "Pluripotent"
                       THEN simulation.div_counters[index]
                               >= simulation.pluri_div_thresh
                       ELSE /\ simulation.div_counters[index]
                                  >= simulation.diff_div_thresh
                            /\ Degree(simulation.neighbor_graph, index)
                                  < simulation.contact_inhibit
             /\ IF Occurrences(simulation'.cells_to_divide, index) > 0
                THEN simulation'.div_counters[index]
                        = simulation.div_counters[index]
                ELSE simulation'.div_counters[index] - simulation.div_counters[index]
                        \in {0, 1}]_vars

\* C16: a turn of the loop of update_diffusion_jit leaves the sum of the
\* entries of base[1:-1, 1:-1] as it was, whatever the entries and the
\* coefficient a; with nothing clipped, the sum of the gradient after
\* update_diffusion, and after every turn, is the sum before the call
C16_MassConserved ==
    [][/\ pc = "diffuse" =>
             SumOver(frame'.base.data, Inner(frame.base.shape)) * frame.base.unit
                = SumOver(frame.base.data, Inner(frame.base.shape)) * frame'.base.unit
       /\ (pc' \in {"diffuse", "end_diffusion"} /\ ~hist'.clipped) =>
             SumOver(frame'.base.data, Inner(frame'.base.shape)) * hist.mass.unit
                = hist.mass.sum * frame'.base.unit
       /\ (pc' = "done" /\ ~hist'.clipped) =>
             Total(simulation'.fgf4_values) * hist.mass.unit
                = hist.mass.sum * simulation'.fgf4_values.unit]_vars

\* update_diffusion has returned after three turns, the last with another
\* coefficient, from a gradient with unequal entries; nothing was clipped
\* and the mass is not zero
C16_Witness ==
    /\ hist.after = "update_diffusion"
    /\ ~hist.clipped
    /\ frame.i = 3
    /\ frame.last_dt # simulation.diffuse_dt
    /\ hist.mass.sum > 0
    /\ \E g, h \in DOMAIN simulation.fgf4_values.data :
          simulation.fgf4_values.data[g] # simulation.fgf4_values.data[h]

\* the arrays that the call of assign_bins in check_neighbors returned: the
\* capacity it left suffices, so that a call with it makes the last pass
ReturnedBins ==
    assign_bins(simulation.size, simulation.locations, simulation.number_cells,
                neighbor_distance, static.check_max_cells)

\* every cell is stored once, in the bin of its location, and the capacity
\* returned is at least the largest number of cells in a bin
BinsComplete(B, number_cells) ==
    /\ \A i \in Range0(number_cells) :
          /\ Cardinality({s \in {<<b, k>> : b \in DOMAIN B.bins, k \in 1 .. number_cells} :
                             s[2] <= Len(B.bins[s[1]]) /\ B.bins[s[1]][s[2]] = i}) = 1
          /\ B.bin_locations[i] \in DOMAIN B.bins
          /\ i \in SeqToSet(B.bins[B.bin_locations[i]])
    /\ B.max_cells >= MaxCount(B.bins)

\* C17: in a call of assign_bins no pass stores a cell index at a place
\* >= max_cells of a bin, whether the store lands inside the bins array or
\* beyond it, and the arrays returned hold every cell once in the bin of
\* its location with a capacity that covers the fullest bin
C17_OverflowContained ==
    pc = "searched" =>
        /\ ~hist.oob_in
        /\ ~hist.oob_out
        /\ BinsComplete(ReturnedBins, simulation.number_cells)

\* C18: after a force pass jkr_forces is what the loop over the edges
\* leaves when the edges are processed one after another, whatever the
\* interleaving of the workers and also when edges share a cell
C18_Sequential ==
    hist.after = "get_forces" =>
        simulation.jkr_forces
            = get_forces_cpu(hist.pass.edges, hist.pass.locations,
                             hist.pass.radii, hist.pass.before, {})

\* C19: after cell_motility a cell with MotilityNeighbors or more proximity
\* neighbors has motion false and its motility force as before, and a cell
\* with fewer has motion true and a force added to its motility force,
\* whatever its state and its levels of GATA6 and NANOG
C19_Motility ==
    [][pc = "cell_motility" =>
          \A index \in Range0(simulation.number_cells) :
             IF Degree(simulation.neighbor_graph, index) >= MotilityNeighbors
             THEN /\ ~simulation'.motion[index]
                  /\ index \notin hist'.pushed
                  /\ simulation'.motility_forces[index]
                        = simulation.motility_forces[index]
             ELSE /\ simulation'.motion[index]
                  /\ index \in hist'.pushed]_vars

\* C20: over every step a cell that is Differentiated and stays in the
\* simulation is Differentiated afterwards, and the row appended for the
\* daughter of a Differentiated mother is Differentiated
C20_OneWay ==
    [][/\ \A i \in DOMAIN hist.uid \cap DOMAIN simulation.states :
          \A j \in DOMAIN hist'.uid \cap DOMAIN simulation'.states :
             (hist.uid[i] = hist'.uid[j]
              /\ simulation.states[i] = "Differentiated")
                => simulation'.states[j] = "Differentiated"
       /\ pc = "update_queue" =>
             \A k \in 1 .. Len(simulation.cells_to_divide) :
                simulation.states[simulation.cells_to_divide[k]] = "Differentiated"
                   => simulation'.states[simulation.number_cells + k - 1]
                         = "Differentiated"]_vars

\* the update_queue of the second step has returned: a cell that
\* differentiated in the first step is still Differentiated, at another
\* row after a removal, and has a Differentiated daughter
C20_Witness ==
    /\ hist.after = "update_queue"
    /\ simulation.current_step = DoxStep + 2
    /\ Len(hist.uq.remove) > 0
    /\ \E k \in 1 .. Len(hist.uq.divide) :
          \E i, j \in Range0(simulation.number_cells) :
             /\ hist.uid[i] = hist.pre_uid[hist.uq.divide[k]]
             /\ hist.uid[i] # i
             /\ hist.pre_uid[hist.uq.number_cells + k - 1] = hist.uid[j]
             /\ simulation.states[i] = "Differentiated"
             /\ simulation.states[j] = "Differentiated"

\* C21: in every state between the phases of a step every value of the
\* FGF4 grid lies in [0, max_concentration], also after cell_pathway has
\* added the NANOG amount of a cell to, or deducted an increase of FGFR
\* from, the diffusion point nearest to the cell
C21_FieldBounds ==
    pc # "raised" =>
        \A g \in DOMAIN simulation.fgf4_values :
           /\ 0 <= simulation.fgf4_values[g]
           /\ simulation.fgf4_values[g] <= simulation.max_concentration

\* the driver is between two phases of a step: no phase is running
BetweenPhases ==
    pc \in {"check_neighbors", "cell_death", "cell_diff_surround", "cell_growth",
            "cell_division", "cell_pathway", "update_queue", "step_end"}
       \/ (pc = "handle_movement" /\ frame.caller = "driver")

\* C22: in every state between the phases of a step the location of every
\* cell satisfies 0 <= location[d] <= size[d] on each axis, also right after
\* update_queue has moved a dividing mother and its daughter apart, for a
\* mother anywhere in the space (also on its limits)
C22_InDomain ==
    BetweenPhases =>
        \A index \in Range0(simulation.number_cells) : \A d \in 1 .. 3 :
           /\ 0 <= simulation.locations[index][d]
           /\ simulation.locations[index][d] <= simulation.size[d]

\* the calls a and b are each made once in the turn, a before b
Before(order, a, b) ==
    \E i, j \in 1 .. Len(order) :
       /\ i < j /\ order[i] = a /\ order[j] = b
       /\ \A k \in 1 .. Len(order) : (order[k] = a => k = i) /\ (order[k] = b => k = j)

\* C23: every step of the driver makes its calls in the order death,
\* surround differentiation, growth, division marking and pathway, motility,
\* diffusion update, queue update, movement, snapshot, clock increment; in
\* particular the gradients are updated after the life-cycle calls of the
\* step and before the queue update
C23_PhaseOrder ==
    (pc = "while" /\ hist.after = "time_counter") =>
        /\ Before(hist.order, "kill_cells", "diff_surround_cells")
        /\ Before(hist.order, "diff_surround_cells", "change_size_cells")
        /\ Before(hist.order, "change_size_cells", "update_cells")
        /\ Before(hist.order, "update_cells", "random_movement")
        /\ Before(hist.order, "random_movement", "update_gradients")
        /\ Before(hist.order, "update_gradients", "update_cell_queue")
        /\ Before(hist.order, "update_cell_queue", "handle_collisions")
        /\ Before(hist.order, "handle_collisions", "save_file")
        /\ Before(hist.order, "save_file", "time_counter")

\* the cell arrays that the division part resets or moves
DivisionResets == {"locations", "radii", "div_counters"}

\* C24: for each cell of cells_to_divide update_queue appends one daughter
\* at row number_cells + (position of the mother in cells_to_divide) whose
\* every field is a copy of the mother's, sets the radius of both to
\* min_radius and the division counter of both to 0, and moves mother and
\* daughter by +v and -v for one vector v of length max_radius - min_radius
\* from the mother's previous location; no field of another cell changes,
\* and with group = 0 none changes when the new cells are counted in
C24_Division ==
    [][/\ pc = "update_queue" =>
             /\ \A name \in CellArrayNames :
                   /\ Len0(simulation'[name])
                         = Len0(simulation[name]) + Len(simulation.cells_to_divide)
                   /\ \A i \in Range0(simulation.number_cells)
                               \ SeqToSet(simulation.cells_to_divide) :
                         simulation'[name][i] = simulation[name][i]
             /\ \A k \in 1 .. Len(simulation.cells_to_divide) :
                   LET mother == simulation.cells_to_divide[k]
                       daughter == simulation.number_cells + k - 1
                       v == VSub(simulation'.locations[mother],
                                 simulation.locations[mother])
                   IN /\ \A name \in CellArrayNames \ DivisionResets :
                            /\ simulation'[name][daughter] = simulation[name][mother]
                            /\ simulation'[name][mother] = simulation[name][mother]
                      /\ simulation'.radii[mother] = simulation.min_radius
                      /\ simulation'.radii[daughter] = simulation.min_radius
                      /\ simulation'.div_counters[mother] = 0
                      /\ simulation'.div_counters[daughter] = 0
                      /\ simulation'.locations[daughter]
                            = VSub(simulation.locations[mother], v)
                      /\ Dist2(v, ZeroVec)
                            = (simulation.max_radius - simulation.min_radius)
                                 * (simulation.max_radius - simulation.min_radius)
       /\ (pc = "add_cells" /\ simulation.group = 0) =>
             /\ \A name \in CellArrayNames : simulation'[name] = simulation[name]
             /\ simulation'.number_cells
                   = hist.uq.number_cells + Len(hist.uq.divide)]_vars

\* the division part has run with group = 0 for two mothers, one of them
\* not in row 0, beside a cell that does not divide, and the daughters
\* are counted in
C24_Witness ==
    /\ hist.after = "add_cells"
    /\ simulation.group = 0
    /\ Len(hist.uq.divide) = 2
    /\ hist.uq.number_cells > 2
    /\ simulation.number_cells = hist.uq.number_cells + 2
    /\ \E k \in 1 .. 2 :
          Dist2(simulation.locations[hist.uq.divide[k]],
                simulation.locations[hist.uq.number_cells + k - 1]) > 0

\* the running call of handle_movement is not the first since update_queue
\* was entered in this step
LaterCall ==
    \/ frame.caller = "driver" /\ hist.hm_calls >= 1
    \/ frame.caller = "update_queue" /\ hist.hm_calls >= 2

\* C25: a call of handle_movement makes exactly ceil(step_dt / move_dt)
\* sub-steps, each jkr_neighbors, get_forces, apply_forces in this order;
\* the motility forces are the same in every sub-step; when the call
\* returns every row of motility_forces and of jkr_forces is zero, and a
\* later call of the same step applies the zero motility force to every cell
C25_Movement ==
    [][/\ pc = "handle_movement" => (pc' = "jkr_neighbors" /\ frame'.i = 0)
       /\ pc = "jkr_neighbors" => pc' \in {"get_forces", "raised"}
       /\ pc = "get_forces" => pc' = "apply_forces"
       /\ pc = "apply_forces" =>
             /\ frame'.i = frame.i + 1
             /\ pc' = IF frame'.i < CeilDiv(simulation.step_dt, simulation.move_dt)
                      THEN "jkr_neighbors" ELSE "end_movement"
             /\ LaterCall => \A i \in Range0(simulation.number_cells) :
                                hist'.applied[i] = ZeroVec
       /\ pc \in {"jkr_neighbors", "get_forces", "apply_forces"} =>
             simulation'.motility_forces = simulation.motility_forces
       /\ pc = "end_movement" =>
             /\ frame.i = CeilDiv(simulation.step_dt, simulation.move_dt)
             /\ simulation'.motility_forces = Zeros(simulation.number_cells)
             /\ simulation'.jkr_forces = Zeros(simulation.number_cells)]_vars

\* the time steps of floor(step_dt / diffuse_dt) turns of diffuse_dt and,
\* when step_dt is not a multiple of diffuse_dt, of a last turn that takes
\* what remains
WholeTurns(step_dt, diffuse_dt) ==
    [k \in 1 .. (step_dt \div diffuse_dt) |-> diffuse_dt]
        \o (IF step_dt % diffuse_dt # 0 THEN <<step_dt % diffuse_dt>> ELSE <<>>)

\* the sum of the entries of a sequence
RECURSIVE SeqSum(_)
SeqSum(q) == IF q = <<>> THEN 0 ELSE Head(q) + SeqSum(Tail(q))

\* C26: one update_diffusion advances the gradient by floor(step_dt /
\* diffuse_dt) turns of diffuse_dt and, when step_dt is not a multiple of
\* diffuse_dt, one last turn of step_dt - floor(step_dt / diffuse_dt) *
\* diffuse_dt, so that the time steps of the turns sum to step_dt
C26_SubSteps ==
    hist.after = "update_diffusion" =>
        /\ hist.turns = WholeTurns(simulation.step_dt, simulation.diffuse_dt)
        /\ SeqSum(hist.turns) = simulation.step_dt

\* the largest number of cells that one bin of side distance receives
TrueBinMax(sim, distance) ==
    SetMax({Cardinality({j \in Range0(sim.number_cells) :
                            bin_locations_of(sim.locations, distance)[j]
                               = bin_locations_of(sim.locations, distance)[i]}) :
               i \in Range0(sim.number_cells)})

\* the largest number of partners j > i that a cell i has among the pairs
\* of Pairs
TruePartnerMax(sim, Pairs) ==
    SetMax({Cardinality({j \in Range0(sim.number_cells) : <<i, j>> \in Pairs}) :
               i \in Range0(sim.number_cells)})

\* the pairs i < j of cells whose spheres touch or overlap
ContactSet(sim) ==
    {e \in Range0(sim.number_cells) \X Range0(sim.number_cells) :
        /\ e[1] < e[2]
        /\ Dist2(sim.locations[e[1]], sim.locations[e[2]])
              <= (sim.radii[e[1]] + sim.radii[e[2]]) * (sim.radii[e[1]] + sim.radii[e[2]])}

\* a retry loop that received the capacity old and left the capacity new
\* after passes passes, for a true largest count of count: one pass when the
\* capacity sufficed, else a second pass with twice the count
TwoPasses(old, new, passes, count) ==
    IF old >= count THEN passes = 1 /\ new = old
    ELSE passes = 2 /\ new = 2 * count /\ new >= old

\* C27: the retry loops of assign_bins and of the searches of
\* check_neighbors and jkr_neighbors end after at most two passes: a first
\* pass that overflows finds the true largest count, the capacity becomes
\* twice that count and the second pass suffices; the capacity kept for
\* later calls is never smaller than the one received
C27_Retry ==
    [][/\ (pc = "check_neighbors" /\ pc' # "raised") =>
             /\ TwoPasses(static.check_max_cells, static'.check_max_cells,
                          hist'.bin_passes,
                          TrueBinMax(simulation, neighbor_distance))
             /\ TwoPasses(static.check_max_neighbors, static'.check_max_neighbors,
                          hist'.edge_passes,
                          TruePartnerMax(simulation,
                              CloseSet(simulation.locations, simulation.number_cells)))
       /\ (pc = "jkr_neighbors" /\ pc' # "raised") =>
             /\ TwoPasses(static.jkr_max_cells, static'.jkr_max_cells,
                          hist'.jkr_passes.bins,
                          TrueBinMax(simulation, 2 * simulation.max_radius))
             /\ TwoPasses(static.jkr_max_neighbors, static'.jkr_max_neighbors,
                          hist'.jkr_passes.edges,
                          TruePartnerMax(simulation, ContactSet(simulation)))]_vars

\* jkr_neighbors has returned after two passes of assign_bins and two
\* passes of its search, following a check_neighbors whose loops had
\* raised both capacities and a second one that kept them
C27_Witness ==
    /\ hist.after = "jkr_neighbors"
    /\ hist.jkr_passes = [bins |-> 2, edges |-> 2]
    /\ hist.prev_valid
    /\ hist.bin_passes = 1
    /\ hist.edge_passes = 1
    /\ static.check_max_cells > InitMaxCells
    /\ static.check_max_neighbors > InitMaxNeighbors

\* C28: during update_queue with group > 0, in every call of
\* handle_movement (also for the second and later groups) each array that
\* the movement kernels index by cell (locations, radii, jkr_forces,
\* motility_forces) has at least number_cells rows
C28_RowsCover ==
    (/\ frame.caller = "update_queue"
     /\ simulation.group > 0
     /\ pc \in {"handle_movement", "jkr_neighbors", "get_forces", "apply_forces"}) =>
        \A name \in {"locations", "radii", "jkr_forces", "motility_forces"} :
           Len0(simulation[name]) >= simulation.number_cells

\* C29: on the parallel path one call of get_forces evaluates every edge
\* of the contact graph: the edge of every index below the number of edges
\* is either flagged and deleted or its force is added to the rows of both
\* of its cells, for every number of cells and of edges (also with more
\* edges than threads)
C29_EveryEdge ==
    hist.after = "get_forces_gpu" =>
        /\ \A k \in 1 .. Len(hist.pass.edges) :
              EdgeForce(hist.pass.locations, hist.pass.radii, hist.pass.edges[k]).delete
                 <=> hist.pass.edges[k] \notin EdgeSet(simulation.jkr_graph)
        /\ simulation.jkr_forces
              = get_forces_cpu(hist.pass.edges, hist.pass.locations,
                               hist.pass.radii, hist.pass.before,
                               hist.pass.lost)

\* C30: update_diffusion leaves the shape of the gradient as it was: after
\* the call the gradient has on every axis, the third included, the extent
\* it had before the call
C30_ShapeKept ==
    hist.after = "update_diffusion" =>
        \A d \in 1 .. 3 : simulation.fgf4_values.shape[d] = DiffuseShape[d]

============================================================================
